---- MODULE Spec2Model ----
(***************************************************************************)
(* Identity resolution of donor records: the similarity scorer, the match  *)
(* decision, blocking, greedy clustering (assign_master_ids.py), the alias *)
(* override pass (apply_alias_overrides.py) and the pipeline runner        *)
(* (run_pipeline.py).                                                      *)
(*                                                                         *)
(* Strings are sequences of one-character strings.  Python floats are      *)
(* modelled as exact fractions <<num, den>> in lowest terms; the match     *)
(* score, a sum of 0.4 and 0.3 terms, is modelled in tenths.  The          *)
(* truncated SHA-256 of generate_master_id is modelled as an injective tag *)
(* over the key string it hashes.                                          *)
(***************************************************************************)
EXTENDS Integers, Sequences, FiniteSets, TLC

VARIABLES
    pc,            \* which program runs and where it stands
    name1,         \* calculate_name_similarity: first argument
    name2,         \* calculate_name_similarity: second argument
    sim12,         \* calculate_name_similarity(name1, name2)
    sim21,         \* calculate_name_similarity(name2, name1)
    records,       \* the List[DonorRecord] handed to assign_master_ids (donor_master rows)
    reordered,     \* the same records handed over in another input order
    trace,         \* history of the pass over `records`: seed and write count per record
    verdict,       \* match_records(records[1], records[2]): <<matched, score in tenths>>
    donations,     \* nc_boe_donations_raw rows: donor_name, master_person_id
    aliases,       \* person_aliases rows: alias_name, master_person_id
    rows_updated,  \* cur.rowcount of the last alias UPDATE
    passes,        \* how many times apply_alias_overrides has run
    opts,          \* run_pipeline options: full, step, dry_run
    step_idx,      \* run_pipeline: index into `steps` of the step to run next
    df,            \* the table (DataFrame or list) handed to a batch function
    other_df,      \* the second table a batch function is handed
    result         \* what the batch function returned

vars == <<pc, name1, name2, sim12, sim21, records, reordered, trace, verdict,
          donations, aliases, rows_updated, passes, opts, step_idx, df, other_df,
          result>>

\* ------------------------------------------------------------------ bounds

\* longest name handed to calculate_name_similarity in SimSpec
MaxNameLen == 4

\* longest list of records handed to assign_master_ids
MaxRecords == 3

\* ----------------------------------------------------------------- strings

Min2(a, b) == IF a <= b THEN a ELSE b
Max2(a, b) == IF a >= b THEN a ELSE b

LowerChars == <<"a","b","c","d","e","f","g","h","i","j","k","l","m",
                "n","o","p","q","r","s","t","u","v","w","x","y","z">>
UpperChars == <<"A","B","C","D","E","F","G","H","I","J","K","L","M",
                "N","O","P","Q","R","S","T","U","V","W","X","Y","Z">>
DigitChars == {"0","1","2","3","4","5","6","7","8","9"}

\* str.upper(), one character
UpperChar(c) ==
    IF \E i \in 1..26 : LowerChars[i] = c
    THEN UpperChars[CHOOSE i \in 1..26 : LowerChars[i] = c]
    ELSE c

\* str.upper()
Upper(s) == [i \in 1..Len(s) |-> UpperChar(s[i])]

RECURSIVE LStrip(_)
LStrip(s) == IF s # <<>> /\ Head(s) = " " THEN LStrip(Tail(s)) ELSE s

RECURSIVE RStrip(_)
RStrip(s) ==
    IF s # <<>> /\ s[Len(s)] = " " THEN RStrip(SubSeq(s, 1, Len(s) - 1)) ELSE s

\* str.strip()
Strip(s) == RStrip(LStrip(s))

\* s[:n]
Slice(s, n) == SubSeq(s, 1, Min2(n, Len(s)))

\* ---------------------------------------------------------------- fractions

RECURSIVE GCD(_, _)
GCD(a, b) == IF b = 0 THEN a ELSE GCD(b, a % b)

\* the fraction n/d (n >= 0, d > 0) in lowest terms
Frac(n, d) == LET g == GCD(n, d) IN <<n \div g, d \div g>>

\* x >= n/d for a fraction x
FracGE(x, n, d) == x[1] * d >= n * x[2]

\* --------------------------------------------- calculate_name_similarity

\* match_distance = max(0, max(len1, len2) // 2 - 1)
MatchDistanceLen1Only(len1, len2) == Max2(0, (len1 \div 2) - 1)
MatchDistance(len1, len2) == Max2(0, (Max2(len1, len2) \div 2) - 1)

\* the inner loop: the first j of the window, in ascending order, that is
\* unmatched and holds s1[i]; 0 when the loop ends without a break
FirstMatch(s1, s2, i, md, m2) ==
    LET lo == Max2(1, i - md)
        hi == Min2(i + md, Len(s2))
        C  == {j \in lo..hi : j \notin m2 /\ s1[i] = s2[j]}
    IN IF C = {} THEN 0 ELSE CHOOSE j \in C : \A k \in C : j <= k

\* the outer matching loop from index i on: <<s1_matches, s2_matches>> as sets
RECURSIVE ScanMatches(_, _, _, _, _, _)
ScanMatches(s1, s2, i, md, m1, m2) ==
    IF i > Len(s1) THEN <<m1, m2>>
    ELSE LET j == FirstMatch(s1, s2, i, md, m2)
         IN IF j = 0 THEN ScanMatches(s1, s2, i + 1, md, m1, m2)
            ELSE ScanMatches(s1, s2, i + 1, md, m1 \cup {i}, m2 \cup {j})

\* the characters of s at the indices of m, in ascending index order
RECURSIVE Matched(_, _, _)
Matched(s, m, i) ==
    IF i > Len(s) THEN <<>>
    ELSE (IF i \in m THEN <<s[i]>> ELSE <<>>) \o Matched(s, m, i + 1)

\* the k loop: matched characters of s1 and s2 taken pairwise in order
Transpositions(s1, s2, m1, m2) ==
    LET a == Matched(s1, m1, 1)
        b == Matched(s2, m2, 1)
    IN Cardinality({n \in 1..Len(a) : a[n] # b[n]})

\* prefix_len = sum(1 for i in range(min(4, len1, len2)) if s1[i] == s2[i])
PrefixLen(s1, s2) ==
    Cardinality({i \in 1..Min2(4, Min2(Len(s1), Len(s2))) : s1[i] = s2[i]})

\* jaro = (m/len1 + m/len2 + (m - t/2)/m) / 3, then
\* jaro + p * 0.1 * (1 - jaro)
JaroBoosted(s1, s2, p) ==
    LET l1 == Len(s1)
        l2 == Len(s2)
        mm == ScanMatches(s1, s2, 1, MatchDistance(l1, l2), {}, {})
        m  == Cardinality(mm[1])
        t  == Transpositions(s1, s2, mm[1], mm[2])
        jn == 2 * m * m * l2 + 2 * m * m * l1 + (2 * m - t) * l1 * l2
        jd == 6 * m * l1 * l2
    IN IF m = 0 THEN <<0, 1>>
       ELSE Frac(10 * jn + p * (jd - jn), 10 * jd)

\* the value returned for two different non-empty stripped names
JaroWinkler(s1, s2) == JaroBoosted(s1, s2, PrefixLen(s1, s2))

\* as calculate_name_similarity, the emptiness test made on the stripped names
calculate_name_similarity_stripped_empty(n1, n2) ==
    LET s1 == Strip(Upper(n1))
        s2 == Strip(Upper(n2))
    IN IF s1 = <<>> \/ s2 = <<>> THEN <<0, 1>>
       ELSE IF s1 = s2 THEN <<1, 1>>
       ELSE JaroWinkler(s1, s2)

calculate_name_similarity(n1, n2) ==
    IF n1 = <<>> \/ n2 = <<>> THEN <<0, 1>>
    ELSE LET s1 == Strip(Upper(n1))
             s2 == Strip(Upper(n2))
         IN IF s1 = s2 THEN <<1, 1>>
            ELSE IF Len(s1) = 0 \/ Len(s2) = 0 THEN <<0, 1>>
            ELSE JaroWinkler(s1, s2)

\* ------------------------------------------------------ normalize_zip

\* re.sub(r'\D', '', s)
DigitsOf(s) == SelectSeq(s, LAMBDA c : c \in DigitChars)

\* zeros appended instead of prepended
RECURSIVE ZFillRight(_, _)
ZFillRight(s, n) == IF Len(s) >= n THEN s ELSE ZFillRight(s \o <<"0">>, n)

\* str.zfill(n)
RECURSIVE ZFill(_, _)
ZFill(s, n) == IF Len(s) >= n THEN s ELSE ZFill(<<"0">> \o s, n)

normalize_zip(zipcode) ==
    IF zipcode = <<>> THEN <<>>
    ELSE LET digits == DigitsOf(zipcode)
         IN IF Len(digits) >= 5 THEN Slice(digits, 5)
            ELSE IF Len(digits) > 0 THEN ZFill(digits, 5)
            ELSE <<>>

\* ------------------------------------------------------ DonorRecord

\* master_person_id: Optional[str] = None
None == <<>>

Bar == <<"|">>

create_blocking_key(last_name, zipcode, first_initial) ==
    LET ln == Slice(Strip(Upper(last_name)), 5)
        z  == IF zipcode # <<>> THEN Slice(normalize_zip(zipcode), 3) ELSE <<>>
        fi == Slice(Upper(first_initial), 1)
    IN ln \o Bar \o z \o Bar \o fi

\* "MP_" + sha256(key_string).hexdigest()[:12].upper(): the digest prefix is
\* modelled as an injective tag, the key string itself
generate_master_id(components) ==
    LET key_string == Strip(Upper(components.last_name)) \o Bar
                      \o Slice(Strip(Upper(components.first_name)), 3) \o Bar
                      \o Slice(components.zip, 5) \o Bar
                      \o components.street_num
    IN <<"MP_">> \o key_string

\* re.match(r'^(\d+)', s): the leading run of digits
RECURSIVE LeadingDigits(_)
LeadingDigits(s) ==
    IF s # <<>> /\ Head(s) \in DigitChars
    THEN <<Head(s)>> \o LeadingDigits(Tail(s))
    ELSE <<>>

extract_street_number(address) ==
    IF address = <<>> THEN <<>> ELSE LeadingDigits(Strip(address))

\* ------------------------------------------------------ match_records

\* street_match = sn1 == sn2 and sn1 != ''
street_match_blank_equal(sn1, sn2) == sn1 = sn2
street_match(sn1, sn2) == sn1 = sn2 /\ sn1 # <<>>

\* 0.4 if fn_sim >= 0.9 else 0.3 if fn_sim >= 0.8 else 0, in tenths
name_score(fn_sim) ==
    IF FracGE(fn_sim, 9, 10) THEN 4 ELSE IF FracGE(fn_sim, 8, 10) THEN 3 ELSE 0

\* score >= 0.6, the score in tenths
is_match_low(score) == score >= 3
is_match(score) == score >= 6

\* returns <<matched, score>>, the score in tenths
match_records(r1, r2) ==
    IF Upper(r1.last_name) # Upper(r2.last_name) THEN <<FALSE, 0>>
    ELSE LET fn_sim == calculate_name_similarity(r1.first_name, r2.first_name)
             zip_match == normalize_zip(r1.zipcode) = normalize_zip(r2.zipcode)
             sn1 == extract_street_number(r1.street_address)
             sn2 == extract_street_number(r2.street_address)
             score == name_score(fn_sim)
                      + (IF zip_match THEN 3 ELSE 0)
                      + (IF street_match(sn1, sn2) THEN 3 ELSE 0)
         IN <<is_match(score), score>>

\* ------------------------------------------------------ assign_master_ids

\* the key under which assign_master_ids files a record
BlockKey(r) ==
    create_blocking_key(r.last_name, r.zipcode,
                        IF r.first_name # <<>> THEN Slice(r.first_name, 1) ELSE <<>>)

\* the components dict assign_master_ids builds for a seed
Components(r) ==
    [last_name |-> r.last_name, first_name |-> r.first_name,
     zip |-> r.zipcode, street_num |-> extract_street_number(r.street_address)]

Positions(recs) == [i \in 1..Len(recs) |-> i]

\* the first loop: blocks[key].append(r).  One block per key, keys in order
\* of first appearance (blocks.values()), each block the positions of its
\* records in input order
BlocksUnkeyed(recs) == IF recs = <<>> THEN <<>> ELSE <<Positions(recs)>>
Blocks(recs) ==
    LET key   == [i \in 1..Len(recs) |-> BlockKey(recs[i])]
        first == SelectSeq(Positions(recs),
                           LAMBDA i : \A j \in 1..(i - 1) : key[j] # key[i])
    IN [b \in 1..Len(first) |->
           SelectSeq(Positions(recs), LAMBDA i : key[i] = key[first[b]])]

\* r.master_person_id = generate_master_id(components)
SeedId(r) == generate_master_id(Components(r))

\* other.master_person_id = r.master_person_id: the id the seed at position
\* s hands to the record at position o
InheritedIdOwnKey(recs, st, s, o) == generate_master_id(Components(recs[o]))
InheritedId(recs, st, s, o) == st.mid[s]

\* F applied to the value of e.  TLC passes operator arguments unevaluated;
\* binding the value first keeps the loops below from re-evaluating their
\* whole history at every use of the loop state.
Eval(e, F(_)) == CHOOSE y \in {F(v) : v \in {e}} : TRUE

\* the inner loop `for other in block[i+1:]` from block index k on; s is the
\* seed's position.  st: mid (master_person_id per position), assigned (the
\* set of record ids), seed_of and writes (history, per position)
RECURSIVE Propagate(_, _, _, _, _)
Propagate(recs, block, s, k, st0) ==
    Eval(st0, LAMBDA st :
        IF k > Len(block) THEN st
        ELSE LET o == block[k]
             IN IF recs[o].id \notin st.assigned /\ match_records(recs[s], recs[o])[1]
                THEN Propagate(recs, block, s, k + 1,
                               [st EXCEPT !.mid[o] = InheritedId(recs, st, s, o),
                                          !.assigned = @ \cup {recs[o].id},
                                          !.seed_of[o] = s,
                                          !.writes[o] = @ + 1])
                ELSE Propagate(recs, block, s, k + 1, st))

\* the loop `for i, r in enumerate(block)` from block index i on
RECURSIVE ProcessBlock(_, _, _, _)
ProcessBlock(recs, block, i, st0) ==
    Eval(st0, LAMBDA st :
        IF i > Len(block) THEN st
        ELSE LET p == block[i]
             IN IF recs[p].id \in st.assigned
                THEN ProcessBlock(recs, block, i + 1, st)
                ELSE ProcessBlock(recs, block, i + 1,
                         Propagate(recs, block, p, i + 1,
                             [st EXCEPT !.mid[p] = SeedId(recs[p]),
                                        !.assigned = @ \cup {recs[p].id},
                                        !.seed_of[p] = p,
                                        !.writes[p] = @ + 1])))

\* the loop `for block in blocks.values()`; `assigned = set()` per block
RECURSIVE ProcessBlocks(_, _, _, _)
ProcessBlocks(recs, blocks, b, st0) ==
    Eval(st0, LAMBDA st :
        IF b > Len(blocks) THEN st
        ELSE ProcessBlocks(recs, blocks, b + 1,
                 Eval(blocks[b], LAMBDA block :
                     ProcessBlock(recs, block, 1, [st EXCEPT !.assigned = {}]))))

\* one pass of assign_master_ids over recs: the final loop state
RunPass(recs) ==
    Eval(Blocks(recs), LAMBDA blocks :
        ProcessBlocks(recs, blocks, 1,
                      [mid      |-> [i \in 1..Len(recs) |-> recs[i].master_person_id],
                       assigned |-> {},
                       seed_of  |-> [i \in 1..Len(recs) |-> 0],
                       writes   |-> [i \in 1..Len(recs) |-> 0]]))

\* the list assign_master_ids returns (its records mutated in place)
assign_master_ids(recs) ==
    Eval(RunPass(recs), LAMBDA st :
        [i \in 1..Len(recs) |-> [recs[i] EXCEPT !.master_person_id = st.mid[i]]])

\* --------------------------------------------------------------- SimSpec
\* calculate_name_similarity applied to a pair of names, in both argument
\* orders.

SimAlphabet == {"A", "b", " "}

RECURSIVE StringsUpTo(_)
StringsUpTo(n) ==
    IF n = 0 THEN {<<>>}
    ELSE LET S == StringsUpTo(n - 1)
         IN S \cup {Append(s, c) : s \in {x \in S : Len(x) = n - 1}, c \in SimAlphabet}

SimNames == StringsUpTo(MaxNameLen)

NoFrac == <<0, 0>>

IdleSim == name1 = <<>> /\ name2 = <<>> /\ sim12 = NoFrac /\ sim21 = NoFrac
IdleRecords == records = <<>> /\ reordered = <<>> /\ trace = <<>> /\ verdict = <<>>
IdleAlias == donations = <<>> /\ aliases = <<>> /\ rows_updated = 0 /\ passes = 0
IdlePipeline == opts = <<>> /\ step_idx = 0
IdleFrames == df = <<>> /\ other_df = <<>> /\ result = <<>>

SimInit ==
    /\ pc = "sim_ready"
    /\ name1 \in SimNames
    /\ name2 \in SimNames
    /\ sim12 = NoFrac
    /\ sim21 = NoFrac
    /\ IdleRecords /\ IdleAlias /\ IdlePipeline /\ IdleFrames

Compare ==
    /\ pc = "sim_ready"
    /\ sim12' = calculate_name_similarity(name1, name2)
    /\ sim21' = calculate_name_similarity(name2, name1)
    /\ pc' = "sim_done"
    /\ UNCHANGED <<name1, name2, records, reordered, trace, verdict, donations,
                   aliases, rows_updated, passes, opts, step_idx, df, other_df,
                   result>>

SimNext == Compare

SimSpec == SimInit /\ [][SimNext]_vars

\* C10: calculate_name_similarity is symmetric: once both argument orders
\* have been evaluated on a pair of names, the two results are equal.
C10_Symmetric == pc = "sim_done" => sim12 = sim21

\* a pair of different names of different lengths that the windowed matching
\* scores strictly between 0 and 1, with a transposition counted
C10_Witness ==
    /\ pc = "sim_done"
    /\ Len(name1) # Len(name2)
    /\ sim12 # <<0, 1>> /\ sim12 # <<1, 1>>
    /\ LET s1 == Strip(Upper(name1))
           s2 == Strip(Upper(name2))
           mm == ScanMatches(s1, s2, 1, MatchDistance(Len(s1), Len(s2)), {}, {})
       IN Transpositions(s1, s2, mm[1], mm[2]) > 0

\* C11 as stated: calculate_name_similarity(x, x) is 1.0 for every string x
\* and calculate_name_similarity("", x) is 0.0 for every string x.
C11_SelfOneEmptyZero ==
    pc = "sim_done" =>
        /\ name1 = name2 => sim12 = <<1, 1>>
        /\ name1 = <<>> => sim12 = <<0, 1>>

\* C11 amended: calculate_name_similarity(x, x) is 1.0 for every non-empty
\* string x, strings of spaces included, and the result is 0.0 whenever
\* either argument is the empty string, the pair ("", "") included.
C11_NonEmptySelfOneEmptyZero ==
    pc = "sim_done" =>
        /\ (name1 = name2 /\ name1 # <<>>) => (sim12 = <<1, 1>> /\ sim21 = <<1, 1>>)
        /\ (name1 = <<>> \/ name2 = <<>>) => (sim12 = <<0, 1>> /\ sim21 = <<0, 1>>)

\* the function has been applied to (x, x) for an x of spaces only
C11_Witness ==
    /\ pc = "sim_done"
    /\ name1 = name2
    /\ name1 # <<>>
    /\ Strip(name1) = <<>>
    /\ sim12 = <<1, 1>>


\* ------------------------------------------------------------ the records

s_JOHN == <<"J","O","H","N">>
s_JOHN_pad == <<" ","J","O","H","N">>
s_John == <<"J","o","h","n">>
s_JANE == <<"J","A","N","E">>
s_JON == <<"J","O","N">>
s_JOHAN == <<"J","O","H","A","N">>
s_ROBERT == <<"R","O","B","E","R","T">>
s_BOB == <<"B","O","B">>
s_SMITH == <<"S","M","I","T","H">>
s_Smith == <<"S","m","i","t","h">>
s_JONES == <<"J","O","N","E","S">>
s_A == <<"A">>
s_ADAM == <<"A","D","A","M">>
s_B == <<"B">>
s_Main_St == <<"1","2","3"," ","M","a","i","n"," ","S","t">>
s_Main_Street == <<"1","2","3"," ","M","a","i","n"," ","S","t","r","e","e","t">>
s_Oak_Ave == <<"4","5","6"," ","O","a","k"," ","A","v","e">>
s_Pine_Rd == <<"7","8","9"," ","P","i","n","e"," ","R","d">>
s_Pine_Road == <<"7","8","9"," ","P","i","n","e"," ","R","o","a","d">>
s_PO_Box == <<"P","O"," ","B","o","x"," ","1","2">>
s_Box == <<"B","o","x"," ","7">>
s_z27601 == <<"2","7","6","0","1">>
s_z27601_4 == <<"2","7","6","0","1","-","1","2","3","4">>
s_z28202 == <<"2","8","2","0","2">>

\* the donor_name column a record was parsed from
FullName(first, middle, last) ==
    first \o (IF middle = <<>> THEN <<>> ELSE <<" ">> \o middle) \o <<" ">> \o last

DonorRecord(id, first, middle, last, street, zip) ==
    [id |-> id, donor_name |-> FullName(first, middle, last),
     first_name |-> first, middle_name |-> middle, last_name |-> last,
     street_address |-> street, zipcode |-> zip, master_person_id |-> None]

\* the demo records of assign_master_ids.py (the first three of test_records)
JohnA    == DonorRecord(1, s_JOHN, s_A, s_SMITH, s_Main_St, s_z27601)
JohnAdam == DonorRecord(2, s_JOHN, s_ADAM, s_SMITH, s_Main_Street, s_z27601)
JaneB    == DonorRecord(3, s_JANE, s_B, s_SMITH, s_Oak_Ave, s_z27601)

\* records the lists of AssignSpec are drawn from: the demo records, near
\* variants of them, a padded first name, a repeated id, a second surname
\* at one address, addresses without a street number, a missing first name
\* and missing ZIPs
JonOak     == DonorRecord(4, s_JON, <<>>, s_SMITH, s_Oak_Ave, s_z27601)
JohanMain  == DonorRecord(5, s_JOHAN, <<>>, s_SMITH, s_Main_St, s_z27601)
PaddedJohn == DonorRecord(6, s_JOHN_pad, <<>>, s_SMITH, s_Main_St, s_z27601)
SameIdJohn == DonorRecord(1, s_John, <<>>, s_Smith, s_Pine_Rd, s_z27601_4)
Robert     == DonorRecord(8, s_ROBERT, <<>>, s_JONES, s_Pine_Rd, s_z28202)
Bob        == DonorRecord(9, s_BOB, <<>>, s_JONES, s_Pine_Road, s_z28202)
NoFirst    == DonorRecord(10, <<>>, <<>>, s_JONES, s_Box, <<>>)
BobPOBox   == DonorRecord(11, s_BOB, <<>>, s_JONES, s_PO_Box, <<>>)

DonorPool ==
    { JohnA, JohnAdam, JaneB, JonOak, JohanMain, PaddedJohn, SameIdJohn,
      Robert, Bob, NoFirst, BobPOBox }

\* the records the lists of ReorderSpec are drawn from
ReorderPool == { JohnA, JaneB, JonOak, SameIdJohn, Robert, Bob }

\* the lists of at most n records of pool
RECURSIVE RecordLists(_, _)
RecordLists(pool, n) ==
    IF n = 0 THEN {<<>>}
    ELSE LET S == RecordLists(pool, n - 1)
         IN S \cup {Append(l, r) : l \in {x \in S : Len(x) = n - 1}, r \in pool}

Distinct(l) == \A i, j \in 1..Len(l) : i # j => l[i] # l[j]

InputLists == {l \in RecordLists(DonorPool, MaxRecords) : Distinct(l)}

ReorderLists == {l \in RecordLists(ReorderPool, MaxRecords) : Distinct(l)}

Orders(n) == {f \in [1..n -> 1..n] : \A i, j \in 1..n : i # j => f[i] # f[j]}

\* the record as it was handed in, before any pass wrote its id
Bare(r) == [r EXCEPT !.master_person_id = None]

\* the canonical key of a record, as the id generate_master_id mints from it
OwnId(r) == generate_master_id(Components(r))

\* ------------------------------------------------------------- AssignSpec
\* assign_master_ids run once over a list of records.

NoTrace == <<>>

AssignInit ==
    /\ pc = "assign_ready"
    /\ records \in InputLists
    /\ reordered = <<>>
    /\ trace = NoTrace
    /\ verdict = <<>>
    /\ IdleSim /\ IdleAlias /\ IdlePipeline /\ IdleFrames

AssignMasterIds ==
    /\ pc \in {"assign_ready", "assign_shuffled"}
    /\ \E st \in {RunPass(records)} :
          /\ records' = [i \in 1..Len(records) |->
                            [records[i] EXCEPT !.master_person_id = st.mid[i]]]
          /\ trace' = [seed_of |-> st.seed_of, writes |-> st.writes]
    /\ pc' = "assign_done"
    /\ UNCHANGED <<name1, name2, sim12, sim21, reordered, verdict, donations,
                   aliases, rows_updated, passes, opts, step_idx, df, other_df,
                   result>>

AssignNext == AssignMasterIds

AssignSpec == AssignInit /\ [][AssignNext]_vars

\* ------------------------------------------------------------ ReorderSpec
\* assign_master_ids run over a list of records and, after it, over the same
\* records handed over in another input order.

ReorderInit ==
    /\ pc = "reorder_ready"
    /\ records \in ReorderLists
    /\ reordered = records
    /\ trace = NoTrace
    /\ verdict = <<>>
    /\ IdleSim /\ IdleAlias /\ IdlePipeline /\ IdleFrames

\* the caller hands the records over in another order
ReorderInput ==
    /\ pc = "reorder_ready"
    /\ \E f \in Orders(Len(records)) :
          /\ \E i \in 1..Len(records) : f[i] # i
          /\ reordered' = [i \in 1..Len(records) |-> records[f[i]]]
    /\ pc' = "assign_shuffled"
    /\ UNCHANGED <<name1, name2, sim12, sim21, records, trace, verdict, donations,
                   aliases, rows_updated, passes, opts, step_idx, df, other_df,
                   result>>

AssignReordered ==
    /\ pc = "assign_done"
    /\ reordered # <<>>
    /\ reordered' = assign_master_ids(reordered)
    /\ pc' = "assign_both_done"
    /\ UNCHANGED <<name1, name2, sim12, sim21, records, trace, verdict, donations,
                   aliases, rows_updated, passes, opts, step_idx, df, other_df,
                   result>>

ReorderNext == ReorderInput \/ AssignMasterIds \/ AssignReordered

ReorderSpec == ReorderInit /\ [][ReorderNext]_vars

\* -------------------------------------------------------------- MatchSpec
\* match_records applied to a pair of records.

MatchInit ==
    /\ pc = "match_ready"
    /\ records \in {<<a, b>> : a \in DonorPool, b \in DonorPool}
    /\ reordered = <<>>
    /\ trace = NoTrace
    /\ verdict = <<>>
    /\ IdleSim /\ IdleAlias /\ IdlePipeline /\ IdleFrames

MatchRecords ==
    /\ pc = "match_ready"
    /\ verdict' = match_records(records[1], records[2])
    /\ pc' = "match_done"
    /\ UNCHANGED <<name1, name2, sim12, sim21, records, reordered, trace, donations,
                   aliases, rows_updated, passes, opts, step_idx, df, other_df,
                   result>>

MatchNext == MatchRecords

MatchSpec == MatchInit /\ [][MatchNext]_vars

\* -------------------------------------------------------------- AliasSpec
\* apply_alias_overrides run repeatedly over one donations table and one
\* alias table.

\* most rows of person_aliases
MaxAliases == 2

\* most runs of apply_alias_overrides in a row
MaxPasses == 2

\* SQL TRIM(s): leading and trailing spaces removed
TRIM(s) == Strip(s)

\* SQL UPPER(s)
UPPER(s) == Upper(s)

s_john_pad == <<"j","o","h","n"," ","a"," ","s","m","i","t","h"," ">>
s_John_lead == <<" ","J","o","h","n"," ","A"," ","S","m","i","t","h">>

\* the donor_name column of the nc_boe_donations_raw rows of AliasSpec
DonationNames == <<JohnA.donor_name, s_john_pad, JaneB.donor_name>>

\* the alias_name values of person_aliases rows
AliasNames == {JohnA.donor_name, s_John_lead, JonOak.donor_name}

\* the master ids the curated aliases point at
AliasIds == {OwnId(JohnA), OwnId(JonOak)}

AliasRows == [alias_name : AliasNames, master_person_id : AliasIds]

\* the person_aliases tables of at most n rows
RECURSIVE AliasTables(_)
AliasTables(n) ==
    IF n = 0 THEN {<<>>}
    ELSE LET S == AliasTables(n - 1)
         IN S \cup {Append(t, a) : t \in {x \in S : Len(x) = n - 1}, a \in AliasRows}

DonationTables ==
    {[i \in 1..Len(DonationNames) |->
         [id |-> i, donor_name |-> DonationNames[i], master_person_id |-> m[i]]]
     : m \in [1..Len(DonationNames) -> AliasIds \cup {None}]}

\* WHERE UPPER(TRIM(d.donor_name)) = UPPER(TRIM(a.alias_name))
NameMatches(d, a) == UPPER(TRIM(d.donor_name)) = UPPER(TRIM(a.alias_name))

\*   AND d.master_person_id IS DISTINCT FROM a.master_person_id
IsDistinctFrom(x, y) == x # y

\* the rows of person_aliases that join with the donation row d
JoinRows(d, als) ==
    {k \in 1..Len(als) : NameMatches(d, als[k])
                         /\ IsDistinctFrom(d.master_person_id, als[k].master_person_id)}

\* UPDATE ... SET ... FROM: a target row that joins with several rows of the
\* FROM table is updated once, from one of them, and which one is not
\* specified.  pick[i] is the alias row the i-th donation is updated from,
\* 0 when it joins with none.
UpdateChoices(dons, als) ==
    {pick \in [1..Len(dons) -> 0..Len(als)] :
        \A i \in 1..Len(dons) :
            IF JoinRows(dons[i], als) = {} THEN pick[i] = 0
            ELSE pick[i] \in JoinRows(dons[i], als)}

UpdatedRows(dons, als, pick) ==
    [i \in 1..Len(dons) |->
        IF pick[i] = 0 THEN dons[i]
        ELSE [dons[i] EXCEPT !.master_person_id = als[pick[i]].master_person_id]]

\* cur.rowcount
RowCount(pick) == Cardinality({i \in DOMAIN pick : pick[i] # 0})

AliasInit ==
    /\ pc = "alias_ready"
    /\ donations \in DonationTables
    /\ aliases \in AliasTables(MaxAliases)
    /\ rows_updated = 0
    /\ passes = 0
    /\ IdleSim /\ IdleRecords /\ IdlePipeline /\ IdleFrames

apply_alias_overrides ==
    /\ pc \in {"alias_ready", "alias_applied"}
    /\ passes < MaxPasses
    /\ \E pick \in UpdateChoices(donations, aliases) :
          /\ donations' = UpdatedRows(donations, aliases, pick)
          /\ rows_updated' = RowCount(pick)
    /\ passes' = passes + 1
    /\ pc' = "alias_applied"
    /\ UNCHANGED <<name1, name2, sim12, sim21, records, reordered, trace, verdict,
                   aliases, opts, step_idx, df, other_df, result>>

AliasNext == apply_alias_overrides

AliasSpec == AliasInit /\ [][AliasNext]_vars

\* C1: a run of apply_alias_overrides that follows another run over the same
\* donations and the same alias table leaves every master_person_id as the
\* first run left it and writes zero rows (rows_updated = 0), duplicate
\* alias names included.
C1_SecondPassIdle ==
    [][(passes >= 1 /\ passes' = passes + 1)
       => (donations' = donations /\ rows_updated' = 0)]_vars

\* C2: when apply_alias_overrides returns, every donation whose name matches
\* an alias row holds that alias row's master_person_id, and every donation
\* that matches no alias row keeps the master_person_id it had.
C2_AliasIdHeld ==
    [][(passes' = passes + 1) =>
        \A i \in 1..Len(donations) :
            /\ \A k \in 1..Len(aliases) :
                   NameMatches(donations[i], aliases[k])
                   => donations'[i].master_person_id = aliases[k].master_person_id
            /\ (\A k \in 1..Len(aliases) : ~NameMatches(donations[i], aliases[k]))
                   => donations'[i].master_person_id = donations[i].master_person_id]_vars

\* ----------------------------------------------------------- PipelineSpec
\* run_pipeline.main: the steps of one run over the donor_master table.
\* `donations` holds the rows of nc_boe_donations_raw, `records` the rows of
\* donor_master, `aliases` the curated person_aliases table.  The tables are
\* modelled by their id, name, address and master_person_id columns; the
\* master_ids step reads the donor_master rows as the records
\* assign_master_ids takes.

\* the rows the tables of PipelineSpec are drawn from
PipelinePool == { JohnA, JohnAdam, JaneB, JonOak }

PipelineTables == {l \in RecordLists(PipelinePool, MaxRecords) : Distinct(l)}

StepNames == {"parse", "normalize", "spouses", "master_ids"}

\* --step not given
NoStep == ""

\* steps = ['parse', 'normalize', 'spouses', 'master_ids'] if full else [step]
Steps(o) ==
    IF o.full THEN <<"parse", "normalize", "spouses", "master_ids">> ELSE <<o.step>>

\* client.table(table).upsert(records, on_conflict='id'): a row whose id the
\* table holds replaces that row, any other row is appended
RECURSIVE Upsert(_, _)
Upsert(table, rows) ==
    IF rows = <<>> THEN table
    ELSE LET r == Head(rows)
             t == IF \E i \in 1..Len(table) : table[i].id = r.id
                  THEN [i \in 1..Len(table) |->
                           IF table[i].id = r.id THEN r ELSE table[i]]
                  ELSE Append(table, r)
         IN Upsert(t, Tail(rows))

PipelineInit ==
    /\ pc = "pipeline_start"
    /\ opts \in [full : BOOLEAN, step : StepNames \cup {NoStep}, dry_run : BOOLEAN]
    /\ donations \in PipelineTables
    /\ records \in {<<>>, donations}
    /\ aliases \in AliasTables(1)
    /\ step_idx = 0
    /\ rows_updated = 0
    /\ passes = 0
    /\ reordered = <<>> /\ trace = <<>> /\ verdict = <<>>
    /\ IdleSim /\ IdleFrames

PipelineUnchanged ==
    UNCHANGED <<name1, name2, sim12, sim21, reordered, trace, verdict, donations,
                aliases, rows_updated, passes, opts, df, other_df, result>>

\* if not full and not step: sys.exit(1); else the loop starts
Start ==
    /\ pc = "pipeline_start"
    /\ IF ~opts.full /\ opts.step = NoStep
       THEN pc' = "usage_error" /\ step_idx' = step_idx
       ELSE pc' = "pipeline_loop" /\ step_idx' = 1
    /\ UNCHANGED records
    /\ PipelineUnchanged

CurrentStep == Steps(opts)[step_idx]

InLoop == pc = "pipeline_loop" /\ step_idx <= Len(Steps(opts))

\* if dry_run: ... continue
DryRunStep ==
    /\ InLoop
    /\ opts.dry_run
    /\ step_idx' = step_idx + 1
    /\ UNCHANGED <<pc, records>>
    /\ PipelineUnchanged

\* the raw rows, their names parsed, upserted into donor_master
ParseStep ==
    /\ InLoop /\ ~opts.dry_run
    /\ CurrentStep = "parse"
    /\ records' = Upsert(records, donations)
    /\ step_idx' = step_idx + 1
    /\ UNCHANGED pc
    /\ PipelineUnchanged

\* donor_master loaded, its addresses normalized, upserted: no column of the
\* model changes
NormalizeStep ==
    /\ InLoop /\ ~opts.dry_run
    /\ CurrentStep = "normalize"
    /\ records' = Upsert(records, records)
    /\ step_idx' = step_idx + 1
    /\ UNCHANGED pc
    /\ PipelineUnchanged

\* donor_master loaded, spouse columns added, upserted: no column of the
\* model changes
SpousesStep ==
    /\ InLoop /\ ~opts.dry_run
    /\ CurrentStep = "spouses"
    /\ records' = Upsert(records, records)
    /\ step_idx' = step_idx + 1
    /\ UNCHANGED pc
    /\ PipelineUnchanged

\* donor_master loaded, df = assign_master_ids(df), upserted
MasterIdsStep ==
    /\ InLoop /\ ~opts.dry_run
    /\ CurrentStep = "master_ids"
    /\ records' = Upsert(records, assign_master_ids(records))
    /\ step_idx' = step_idx + 1
    /\ UNCHANGED pc
    /\ PipelineUnchanged

\* the loop is exhausted: "Pipeline finished!"
Finish ==
    /\ pc = "pipeline_loop"
    /\ step_idx > Len(Steps(opts))
    /\ pc' = "pipeline_finished"
    /\ UNCHANGED <<records, step_idx>>
    /\ PipelineUnchanged

PipelineNext ==
    \/ Start
    \/ DryRunStep
    \/ ParseStep
    \/ NormalizeStep
    \/ SpousesStep
    \/ MasterIdsStep
    \/ Finish

PipelineSpec == PipelineInit /\ [][PipelineNext]_vars

\* C3: when a full pipeline run that executed its steps has finished, every
\* donor_master record whose name matches an alias row holds that alias
\* row's master_person_id, the alias pass having run after the clustering
\* of assign_master_ids.
C3_FinishedOnAliasIds ==
    (pc = "pipeline_finished" /\ opts.full /\ ~opts.dry_run) =>
        \A i \in 1..Len(records) : \A k \in 1..Len(aliases) :
            NameMatches(records[i], aliases[k])
            => records[i].master_person_id = aliases[k].master_person_id

\* ----------------------------------------------------------------- claims

\* the position in list l of the record r was handed in as
PosIn(l, r) == CHOOSE k \in 1..Len(l) : Bare(l[k]) = Bare(r)

Mid(l, i) == l[i].master_person_id

\* C4 as stated: after assign_master_ids every record holds the id
\* generate_master_id yields for its own canonical key, and any two records
\* with identical canonical keys hold the identical id.
C4_IdOfOwnKey ==
    pc = "assign_done" =>
        /\ \A i \in 1..Len(records) : Mid(records, i) = OwnId(records[i])
        /\ \A i, j \in 1..Len(records) :
               OwnId(records[i]) = OwnId(records[j]) => Mid(records, i) = Mid(records, j)

\* C4 amended: after assign_master_ids every record the pass assigned holds
\* the id generate_master_id yields for the canonical key of the seed of its
\* cluster (its own key when it is the seed), so two seeds with identical
\* canonical keys hold the identical id; a record the pass never assigned
\* holds no id.
C4_IdOfSeedKey ==
    pc = "assign_done" =>
        /\ \A i \in 1..Len(records) :
               LET s == trace.seed_of[i]
               IN /\ s = 0 => Mid(records, i) = None
                  /\ s # 0 => Mid(records, i) = OwnId(records[s])
                  /\ s # 0 => trace.seed_of[s] = s
        /\ \A i, j \in 1..Len(records) :
               (trace.seed_of[i] = i /\ trace.seed_of[j] = j
                /\ OwnId(records[i]) = OwnId(records[j]))
               => Mid(records, i) = Mid(records, j)

\* a non-seed record that holds its seed's id, which is not the id of its
\* own canonical key
C4_Witness ==
    /\ pc = "assign_done"
    /\ \E i \in 1..Len(records) :
           /\ trace.seed_of[i] \notin {0, i}
           /\ Mid(records, i) # OwnId(records[i])

\* C5 as stated: for every permutation of the input list each record
\* receives the same master_person_id in both runs.
C5_AnyOrderSameIds ==
    pc = "assign_both_done" =>
        \A i \in 1..Len(records) :
            Mid(reordered, PosIn(reordered, records[i])) = Mid(records, i)

\* the permutation keeps the relative order of the records of each block
KeepsBlockOrder(a, b) ==
    \A i, j \in 1..Len(a) :
        (i < j /\ BlockKey(a[i]) = BlockKey(a[j])) => PosIn(b, a[i]) < PosIn(b, a[j])

\* C5 amended: for every permutation of the input list that keeps the
\* relative order of the records within each block, each record receives
\* the same master_person_id in both runs.
C5_BlockOrderSameIds ==
    (pc = "assign_both_done" /\ KeepsBlockOrder(records, reordered)) =>
        \A i \in 1..Len(records) :
            Mid(reordered, PosIn(reordered, records[i])) = Mid(records, i)

\* two runs over lists that differ in order, with a block of two records one
\* of which inherits the other's id, the order within each block kept
C5_Witness ==
    /\ pc = "assign_both_done"
    /\ KeepsBlockOrder(records, reordered)
    /\ \E i \in 1..Len(records) : Bare(reordered[i]) # Bare(records[i])
    /\ \E i \in 1..Len(records) : trace.seed_of[i] \notin {0, i}

\* C6: two records that disagree on the blocking key never end the pass
\* holding the same master_person_id.
C6_OtherBlockOtherId ==
    pc = "assign_done" =>
        \A i, j \in 1..Len(records) :
            BlockKey(records[i]) # BlockKey(records[j])
            => ~(Mid(records, i) # None /\ Mid(records, i) = Mid(records, j))

\* C7: after assign_master_ids no record of the input list has
\* master_person_id absent.
C7_EveryRecordAssigned ==
    pc = "assign_done" => \A i \in 1..Len(records) : Mid(records, i) # None

\* C8: run on the three demo records, which share one block, the two JOHN
\* records receive the identical master_person_id and the JANE record a
\* different one, its score against either JOHN record being below 0.6.
C8_DemoScenario ==
    (pc = "assign_done"
     /\ {Bare(records[i]) : i \in 1..Len(records)} = {JohnA, JohnAdam, JaneB}) =>
        LET a == PosIn(records, JohnA)
            b == PosIn(records, JohnAdam)
            c == PosIn(records, JaneB)
        IN /\ BlockKey(JohnA) = BlockKey(JohnAdam) /\ BlockKey(JohnA) = BlockKey(JaneB)
           /\ Mid(records, a) # None
           /\ Mid(records, a) = Mid(records, b)
           /\ Mid(records, c) # None
           /\ Mid(records, c) # Mid(records, a)
           /\ match_records(JohnA, JaneB)[2] < 6
           /\ match_records(JohnAdam, JaneB)[2] < 6

\* the pass has run over the demo list in the demo's order
C8_Witness ==
    /\ pc = "assign_done"
    /\ [i \in 1..Len(records) |-> Bare(records[i])] = <<JohnA, JohnAdam, JaneB>>

WordChars == {UpperChars[i] : i \in 1..26} \cup {LowerChars[i] : i \in 1..26}
             \cup DigitChars \cup {"_"}

\* pat occurs in s at index i
OccursAt(s, i, pat) ==
    i + Len(pat) - 1 <= Len(s) /\ SubSeq(s, i, i + Len(pat) - 1) = pat

\* str.replace(old, new) from index i on: occurrences taken left to right,
\* without overlap
RECURSIVE ReplaceFrom(_, _, _, _)
ReplaceFrom(s, i, old, new) ==
    IF i > Len(s) THEN <<>>
    ELSE IF OccursAt(s, i, old) THEN new \o ReplaceFrom(s, i + Len(old), old, new)
    ELSE <<s[i]>> \o ReplaceFrom(s, i + 1, old, new)

\* s.replace(old, new)
Replace(s, old, new) == Eval(s, LAMBDA v : ReplaceFrom(v, 1, old, new))

\* re.sub(r'\s+', ' ', s) from index i on
RECURSIVE CollapseFrom(_, _)
CollapseFrom(s, i) ==
    IF i > Len(s) THEN <<>>
    ELSE IF s[i] = " " /\ i > 1 /\ s[i - 1] = " " THEN CollapseFrom(s, i + 1)
    ELSE <<s[i]>> \o CollapseFrom(s, i + 1)

\* re.sub(r'\s+', ' ', s)
CollapseSpaces(s) == Eval(s, LAMBDA v : CollapseFrom(v, 1))

\* ' '.join(s.split())
JoinSplit(s) == CollapseSpaces(Strip(s))

\* re.sub(r'[.,#]', '', s)
RemovePunctuation(s) == SelectSeq(s, LAMBDA c : c \notin {".", ",", "#"})

\* \bfull\b matches in s at index i
WordAt(s, i, full) ==
    /\ OccursAt(s, i, full)
    /\ (i = 1 \/ s[i - 1] \notin WordChars)
    /\ (i + Len(full) - 1 = Len(s) \/ s[i + Len(full)] \notin WordChars)

\* re.sub(r'\b' + full + r'\b', abbrev, s) from index i on
RECURSIVE SubWordFrom(_, _, _, _)
SubWordFrom(s, i, full, abbrev) ==
    IF i > Len(s) THEN <<>>
    ELSE IF WordAt(s, i, full) THEN abbrev \o SubWordFrom(s, i + Len(full), full, abbrev)
    ELSE <<s[i]>> \o SubWordFrom(s, i + 1, full, abbrev)

SubWord(s, full, abbrev) == Eval(s, LAMBDA v : SubWordFrom(v, 1, full, abbrev))

\* ------------------------------------------------------ normalize_address

\* STREET_ABBREVS, in the order the dict holds its entries
STREET_ABBREVS ==
    << <<<<"S","T","R","E","E","T">>, <<"S","T">>>>, <<<<"A","V","E","N","U","E">>, <<"A","V","E">>>>,
       <<<<"B","O","U","L","E","V","A","R","D">>, <<"B","L","V","D">>>>, <<<<"D","R","I","V","E">>, <<"D","R">>>>,
       <<<<"L","A","N","E">>, <<"L","N">>>>, <<<<"R","O","A","D">>, <<"R","D">>>>,
       <<<<"C","O","U","R","T">>, <<"C","T">>>>, <<<<"C","I","R","C","L","E">>, <<"C","I","R">>>>,
       <<<<"P","L","A","C","E">>, <<"P","L">>>>, <<<<"T","E","R","R","A","C","E">>, <<"T","E","R">>>>,
       <<<<"T","R","A","I","L">>, <<"T","R","L">>>>, <<<<"H","I","G","H","W","A","Y">>, <<"H","W","Y">>>>,
       <<<<"P","A","R","K","W","A","Y">>, <<"P","K","W","Y">>>>, <<<<"W","A","Y">>, <<"W","A","Y">>>>,
       <<<<"N","O","R","T","H">>, <<"N">>>>, <<<<"S","O","U","T","H">>, <<"S">>>>,
       <<<<"E","A","S","T">>, <<"E">>>>, <<<<"W","E","S","T">>, <<"W">>>>,
       <<<<"N","O","R","T","H","E","A","S","T">>, <<"N","E">>>>, <<<<"N","O","R","T","H","W","E","S","T">>, <<"N","W">>>>,
       <<<<"S","O","U","T","H","E","A","S","T">>, <<"S","E">>>>, <<<<"S","O","U","T","H","W","E","S","T">>, <<"S","W">>>>,
       <<<<"A","P","A","R","T","M","E","N","T">>, <<"A","P","T">>>>, <<<<"S","U","I","T","E">>, <<"S","T","E">>>>,
       <<<<"B","U","I","L","D","I","N","G">>, <<"B","L","D","G">>>>, <<<<"F","L","O","O","R">>, <<"F","L">>>>,
       <<<<"U","N","I","T">>, <<"U","N","I","T">>>>, <<<<"P","O"," ","B","O","X">>, <<"P","O"," ","B","O","X">>>>,
       <<<<"P","O","S","T"," ","O","F","F","I","C","E"," ","B","O","X">>, <<"P","O"," ","B","O","X">>>> >>

\* the loop `for full, abbrev in STREET_ABBREVS.items()` from entry k on
RECURSIVE Abbreviate(_, _)
Abbreviate(addr, k) ==
    IF k > Len(STREET_ABBREVS) THEN addr
    ELSE Eval(SubWord(addr, STREET_ABBREVS[k][1], STREET_ABBREVS[k][2]),
              LAMBDA v : Abbreviate(v, k + 1))

normalize_address(address) ==
    IF address = <<>> THEN <<>>
    ELSE Abbreviate(RemovePunctuation(CollapseSpaces(Strip(Upper(address)))), 1)

normalize_city(city) ==
    IF city = <<>> THEN <<>>
    ELSE Replace(Replace(Replace(CollapseSpaces(Strip(Upper(city))),
                                 <<"S","A","I","N","T"," ">>, <<"S","T"," ">>),
                         <<"M","O","U","N","T"," ">>, <<"M","T"," ">>),
                 <<"F","O","R","T"," ">>, <<"F","T"," ">>)

\* ---------------------------------------------------- household_id_builder

\* the street replacements of create_address_key, in the order it makes them
HouseholdAbbrevs ==
    << <<<<" ","S","T","R","E","E","T">>, <<" ","S","T">>>>, <<<<" ","A","V","E","N","U","E">>, <<" ","A","V","E">>>>,
       <<<<" ","D","R","I","V","E">>, <<" ","D","R">>>>, <<<<" ","R","O","A","D">>, <<" ","R","D">>>>,
       <<<<" ","L","A","N","E">>, <<" ","L","N">>>>, <<<<" ","C","O","U","R","T">>, <<" ","C","T">>>>,
       <<<<" ","C","I","R","C","L","E">>, <<" ","C","I","R">>>>, <<<<" ","B","O","U","L","E","V","A","R","D">>, <<" ","B","L","V","D">>>> >>

RECURSIVE HouseholdAbbreviate(_, _)
HouseholdAbbreviate(street, k) ==
    IF k > Len(HouseholdAbbrevs) THEN street
    ELSE Eval(Replace(street, HouseholdAbbrevs[k][1], HouseholdAbbrevs[k][2]),
              LAMBDA v : HouseholdAbbreviate(v, k + 1))

s_NAN == <<"N","A","N">>

\* household_id_builder.create_address_key: None when street or ZIP is
\* missing, else street|city|zip
household_address_key(row) ==
    LET street   == Strip(Upper(row.street_line_1))
        city     == Strip(Upper(row.city))
        zip_code == Strip(Slice(row.zip_code, 5))
    IN IF street = <<>> \/ zip_code = <<>> \/ street = s_NAN \/ zip_code = s_NAN
       THEN None
       ELSE JoinSplit(HouseholdAbbreviate(street, 1)) \o Bar \o city \o Bar \o zip_code

\* str(uuid.UUID(bytes=sha256(address_key).digest()[:16])): the digest prefix
\* is modelled as an injective tag, the address key itself
generate_household_id(address_key) == <<"uuid:">> \o address_key

\* the rows assign_household_ids returns: address_key and household_id added
assign_household_ids(rows) ==
    [i \in 1..Len(rows) |->
        LET key == household_address_key(rows[i])
        IN [id |-> rows[i].id, street_line_1 |-> rows[i].street_line_1,
            city |-> rows[i].city, zip_code |-> rows[i].zip_code,
            address_key |-> key,
            household_id |-> IF key # None THEN generate_household_id(key) ELSE None]]

\* ---------------------------------------------------------- HouseholdSpec
\* assign_household_ids run over a table of address rows.

\* most rows of the table handed to assign_household_ids
MaxHouseholdRows == 2

\* the street_line_1, city and zip_code values the rows are drawn from, as
\* str() hands them to create_address_key ("nan" for a missing value)
HouseholdStreets ==
    { <<"1","2","3"," ","M","a","i","n"," ","S","t","r","e","e","t">>, <<"1","2","3"," ","M","A","I","N"," ","S","T">>, <<"1","2","3"," ","M","a","i","n"," ","S","t",".">>, <<"1","2","3"," "," ","m","a","i","n"," ","s","t">>,
      <<"4","5"," ","O","a","k"," ","P","l","a","c","e">>, <<"4","5"," ","O","A","K"," ","P","L">>, <<>>, <<"n","a","n">> }

HouseholdCities == { <<"C","a","r","y">>, <<"c","a","r","y"," ">> }

HouseholdZips == { <<"2","7","6","0","1">>, <<"2","7","6","0","1","-","1","2","3","4">>, <<"2","7","6","0">>, <<"0","2","7","6","0">>, <<>> }

AddressRows ==
    [street_line_1 : HouseholdStreets, city : HouseholdCities, zip_code : HouseholdZips]

\* the tables of at most n rows; a row's id is its index
RECURSIVE AddressTables(_)
AddressTables(n) ==
    IF n = 0 THEN {<<>>}
    ELSE LET S == AddressTables(n - 1)
         IN S \cup {Append(t, [id |-> n, street_line_1 |-> a.street_line_1,
                                  city |-> a.city, zip_code |-> a.zip_code])
                    : t \in {x \in S : Len(x) = n - 1}, a \in AddressRows}

HouseholdInit ==
    /\ pc = "household_ready"
    /\ df \in AddressTables(MaxHouseholdRows)
    /\ other_df = <<>>
    /\ result = <<>>
    /\ IdleSim /\ IdleRecords /\ IdleAlias /\ IdlePipeline

AssignHouseholdIds ==
    /\ pc = "household_ready"
    /\ result' = assign_household_ids(df)
    /\ pc' = "household_done"
    /\ UNCHANGED <<name1, name2, sim12, sim21, records, reordered, trace, verdict,
                   donations, aliases, rows_updated, passes, opts, step_idx, df,
                   other_df>>

HouseholdNext == AssignHouseholdIds

HouseholdSpec == HouseholdInit /\ [][HouseholdNext]_vars

\* the (street, city, zip) triple of a row as the AddressNormalizer
\* normalizes it
NormalizedTriple(row) ==
    <<normalize_address(row.street_line_1), normalize_city(row.city),
      normalize_zip(row.zip_code)>>

\* C12: any two rows whose normalized (street, city, zip) triple is the same
\* receive the same household_id from assign_household_ids.
C12_SameTripleSameHousehold ==
    pc = "household_done" =>
        \A i, j \in 1..Len(df) :
            NormalizedTriple(df[i]) = NormalizedTriple(df[j])
            => result[i].household_id = result[j].household_id

\* ------------------------------------------------------ fuzzywuzzy.fuzz
\* The scorers the scripts import from fuzzywuzzy, with the ratio of its
\* Levenshtein backend: 2 * LCS / (len1 + len2).

\* str.lower(), one character
LowerChar(c) ==
    IF \E i \in 1..26 : UpperChars[i] = c
    THEN LowerChars[CHOOSE i \in 1..26 : UpperChars[i] = c]
    ELSE c

\* str.lower()
Lower(s) == [i \in 1..Len(s) |-> LowerChar(s[i])]

\* utils.full_process: \W replaced by a space, lower-cased, stripped
full_process(s) ==
    Strip(Lower([i \in 1..Len(s) |-> IF s[i] \in WordChars THEN s[i] ELSE " "]))

\* the characters of processed tokens in code point order
CharOrder == <<"0","1","2","3","4","5","6","7","8","9","_">> \o LowerChars

CharRank(c) == CHOOSE i \in 1..Len(CharOrder) : CharOrder[i] = c

\* a < b for strings, as Python compares them
RECURSIVE StrLess(_, _)
StrLess(a, b) ==
    IF b = <<>> THEN FALSE
    ELSE IF a = <<>> THEN TRUE
    ELSE IF Head(a) = Head(b) THEN StrLess(Tail(a), Tail(b))
    ELSE CharRank(Head(a)) < CharRank(Head(b))

\* s.split() from index i on; cur is the token being read
RECURSIVE SplitFrom(_, _, _)
SplitFrom(s, i, cur) ==
    IF i > Len(s) THEN (IF cur = <<>> THEN <<>> ELSE <<cur>>)
    ELSE IF s[i] = " "
         THEN (IF cur = <<>> THEN <<>> ELSE <<cur>>) \o SplitFrom(s, i + 1, <<>>)
         ELSE SplitFrom(s, i + 1, Append(cur, s[i]))

\* s.split()
Split(s) == Eval(s, LAMBDA v : SplitFrom(v, 1, <<>>))

\* sorted(tokens) for a set of tokens
RECURSIVE SortedTokens(_)
SortedTokens(T) ==
    IF T = {} THEN <<>>
    ELSE LET least == CHOOSE t \in T : \A u \in T \ {t} : StrLess(t, u)
         IN <<least>> \o SortedTokens(T \ {least})

\* sorted(tokens) for a list of tokens, repeated tokens kept
RECURSIVE SortedList(_)
SortedList(l) ==
    IF l = <<>> THEN <<>>
    ELSE LET k == CHOOSE i \in 1..Len(l) : \A j \in 1..Len(l) : ~StrLess(l[j], l[i])
         IN <<l[k]>> \o SortedList([j \in 1..(Len(l) - 1) |-> IF j < k THEN l[j] ELSE l[j + 1]])

\* " ".join(tokens)
RECURSIVE JoinTokens(_)
JoinTokens(l) ==
    IF l = <<>> THEN <<>>
    ELSE IF Len(l) = 1 THEN l[1]
    ELSE l[1] \o <<" ">> \o JoinTokens(Tail(l))

\* one row of the longest-common-subsequence table: the row for the next
\* character c of the first string, from the row prev of the characters
\* before it; acc holds the cells for b[1..j-1], preceded by the cell 0
RECURSIVE LcsRow(_, _, _, _, _)
LcsRow(prev, c, b, j, acc0) ==
    Eval(acc0, LAMBDA acc :
        IF j > Len(b) THEN acc
        ELSE LcsRow(prev, c, b, j + 1,
                    Append(acc, IF c = b[j] THEN prev[j] + 1
                                ELSE Max2(prev[j + 1], acc[j]))))

RECURSIVE LcsRows(_, _, _, _)
LcsRows(a, b, i, prev0) ==
    Eval(prev0, LAMBDA prev :
        IF i > Len(a) THEN prev
        ELSE LcsRows(a, b, i + 1, LcsRow(prev, a[i], b, 1, <<0>>)))

\* the length of a longest common subsequence of a and b
LCS(a, b) ==
    Eval(a, LAMBDA x : Eval(b, LAMBDA y :
        LcsRows(x, y, 1, [j \in 1..(Len(y) + 1) |-> 0])[Len(y) + 1]))

\* int(round(n / d)) for n, d > 0: halves go to the even neighbour
RoundDiv(n, d) ==
    LET q == n \div d
        r == n % d
    IN IF 2 * r < d THEN q
       ELSE IF 2 * r > d THEN q + 1
       ELSE IF q % 2 = 0 THEN q ELSE q + 1

\* fuzz.ratio: 100 for equal strings, 0 when either is empty
ratio(s1, s2) ==
    IF s1 = s2 THEN 100
    ELSE IF s1 = <<>> \/ s2 = <<>> THEN 0
    ELSE RoundDiv(200 * LCS(s1, s2), Len(s1) + Len(s2))

\* fuzz.token_sort_ratio
token_sort_ratio(s1, s2) ==
    ratio(JoinTokens(SortedList(Split(full_process(s1)))),
          JoinTokens(SortedList(Split(full_process(s2)))))

\* fuzz.token_set_ratio
token_set_ratio(s1, s2) ==
    LET p1 == full_process(s1)
        p2 == full_process(s2)
        tokens1 == {Split(p1)[i] : i \in 1..Len(Split(p1))}
        tokens2 == {Split(p2)[i] : i \in 1..Len(Split(p2))}
        sorted_sect == JoinTokens(SortedTokens(tokens1 \cap tokens2))
        sorted_1to2 == JoinTokens(SortedTokens(tokens1 \ tokens2))
        sorted_2to1 == JoinTokens(SortedTokens(tokens2 \ tokens1))
        combined_1to2 == Strip(sorted_sect \o <<" ">> \o sorted_1to2)
        combined_2to1 == Strip(sorted_sect \o <<" ">> \o sorted_2to1)
    IN IF p1 = <<>> \/ p2 = <<>> THEN 0
       ELSE Max2(ratio(sorted_sect, combined_1to2),
                 Max2(ratio(sorted_sect, combined_2to1),
                      ratio(combined_1to2, combined_2to1)))

\* ----------------------------------------------------------- FragmentSpec
\* assign_master_ids run over a list of records, then find_duplicate_clusters
\* run over the table that holds them.

\* similarity_threshold=85
similarity_threshold == 85

s_SMYTH == <<"S","M","Y","T","H">>

\* a second spelling of JohnA's surname, and another surname at his address
JohnSmyth == DonorRecord(12, s_JOHN, s_A, s_SMYTH, s_Main_St, s_z27601)
BobMain   == DonorRecord(13, s_BOB, <<>>, s_JONES, s_Main_St, s_z27601)

\* the records the lists of FragmentSpec are drawn from
FragmentPool == { JohnA, JohnSmyth, JohnAdam, JaneB, BobMain, SameIdJohn, NoFirst }

FragmentLists == {l \in RecordLists(FragmentPool, MaxRecords) : Distinct(l)}

\* SPLIT_PART(street_line_1, ' ', 1): the text before the first space; NULL
\* for a NULL street
RECURSIVE FirstField(_)
FirstField(s) ==
    IF s = <<>> \/ Head(s) = " " THEN <<>> ELSE <<Head(s)>> \o FirstField(Tail(s))

house_number(street_line_1) ==
    IF street_line_1 = None THEN None ELSE FirstField(street_line_1)

\* the rows of the query: one per (master_person_id, donor_name,
\* house_number, zip_code) of the records whose last_name is not NULL
QueryRows(recs) ==
    {[master_person_id |-> recs[i].master_person_id,
      donor_name |-> recs[i].donor_name,
      house_number |-> house_number(recs[i].street_address),
      zip_code |-> recs[i].zipcode,
      donation_count |-> Cardinality({j \in 1..Len(recs) :
                             /\ recs[j].master_person_id = recs[i].master_person_id
                             /\ recs[j].donor_name = recs[i].donor_name
                             /\ house_number(recs[j].street_address)
                                    = house_number(recs[i].street_address)
                             /\ recs[j].zipcode = recs[i].zipcode})]
     : i \in {k \in 1..Len(recs) : recs[k].last_name # None}}

\* the orders in which the query can return its rows (it has no ORDER BY)
RowOrders(S) ==
    {f \in [1..Cardinality(S) -> S] : \A i, j \in 1..Cardinality(S) : i # j => f[i] # f[j]}

\* for i in range(len(names)): for j in range(i + 1, len(names))
PairIndicesAdjacent(n) == {<<i, i + 1>> : i \in 1..(n - 1)}
PairIndices(n) == {p \in (1..n) \X (1..n) : p[1] < p[2]}

\* the rows of one (zip_code, house_number) group, in the order of df
GroupRows(rows, zip, house) ==
    SelectSeq(rows, LAMBDA r : r.zip_code = zip /\ r.house_number = house)

\* the clusters one group appends
GroupClusters(group) ==
    {[zip_code |-> group[p[1]].zip_code, house_number |-> group[p[1]].house_number,
      name_1 |-> group[p[1]].donor_name, name_2 |-> group[p[2]].donor_name,
      id_1 |-> group[p[1]].master_person_id, id_2 |-> group[p[2]].master_person_id,
      similarity |-> token_set_ratio(group[p[1]].donor_name, group[p[2]].donor_name)]
     : p \in {q \in PairIndices(Len(group)) :
                /\ group[q[1]].master_person_id # group[q[2]].master_person_id
                /\ token_set_ratio(group[q[1]].donor_name, group[q[2]].donor_name)
                       >= similarity_threshold}}

\* the rows of the DataFrame find_duplicate_clusters returns, as a set;
\* groups with a NULL key or fewer than two rows are skipped
find_duplicate_clusters(rows) ==
    LET keys == {<<rows[i].zip_code, rows[i].house_number>> : i \in 1..Len(rows)}
    IN UNION {GroupClusters(GroupRows(rows, k[1], k[2]))
              : k \in {x \in keys : x[1] # None /\ x[2] # None}}

FragmentInit ==
    /\ pc = "assign_ready"
    /\ records \in FragmentLists
    /\ reordered = <<>>
    /\ trace = NoTrace
    /\ verdict = <<>>
    /\ df = <<>>
    /\ other_df = <<>>
    /\ result = {}
    /\ IdleSim /\ IdleAlias /\ IdlePipeline

FindDuplicateClusters ==
    /\ pc = "assign_done"
    /\ \E rows \in RowOrders(QueryRows(records)) :
          /\ df' = rows
          /\ result' = find_duplicate_clusters(rows)
    /\ pc' = "fragment_done"
    /\ UNCHANGED <<name1, name2, sim12, sim21, records, reordered, trace, verdict,
                   donations, aliases, rows_updated, passes, opts, step_idx, other_df>>

FragmentNext == AssignMasterIds \/ FindDuplicateClusters

FragmentSpec == FragmentInit /\ [][FragmentNext]_vars

\* the two records are a pair of the output
Reported(a, b) ==
    \E c \in result :
        /\ c.similarity = token_set_ratio(a.donor_name, b.donor_name)
        /\ \/ (c.name_1 = a.donor_name /\ c.id_1 = a.master_person_id
               /\ c.name_2 = b.donor_name /\ c.id_2 = b.master_person_id)
           \/ (c.name_1 = b.donor_name /\ c.id_1 = b.master_person_id
               /\ c.name_2 = a.donor_name /\ c.id_2 = a.master_person_id)

\* the records hold a ZIP and a street, and their zip_code columns and the
\* first fields of their streets are equal
ShareZipAndHouse(a, b) ==
    /\ a.zipcode # None /\ a.zipcode = b.zipcode
    /\ a.street_address # None /\ b.street_address # None
    /\ house_number(a.street_address) = house_number(b.street_address)

\* C13: two records that the pass left with different master_person_ids
\* (their last names put them in different blocks) are a pair of the output
\* of find_duplicate_clusters whenever they share zip_code and house number
\* and their token-set similarity is >= the threshold; the output holds no
\* pair of equal master ids and no pair scoring below the threshold.
C13_FragmentsReported ==
    pc = "fragment_done" =>
        /\ \A i, j \in 1..Len(records) :
               (/\ Mid(records, i) # Mid(records, j)
                /\ records[i].last_name # None /\ records[j].last_name # None
                /\ ShareZipAndHouse(records[i], records[j])
                /\ token_set_ratio(records[i].donor_name, records[j].donor_name)
                       >= similarity_threshold)
               => Reported(records[i], records[j])
        /\ \A c \in result :
               /\ c.id_1 # c.id_2
               /\ c.similarity >= similarity_threshold
               /\ c.similarity = token_set_ratio(c.name_1, c.name_2)

\* two spellings of one surname, in different blocks and with different ids,
\* reported as a pair
C13_Witness ==
    /\ pc = "fragment_done"
    /\ \E i, j \in 1..Len(records) :
           /\ Upper(records[i].last_name) # Upper(records[j].last_name)
           /\ BlockKey(records[i]) # BlockKey(records[j])
           /\ Mid(records, i) # Mid(records, j)
           /\ ShareZipAndHouse(records[i], records[j])
           /\ Reported(records[i], records[j])
    /\ \E i, j \in 1..Len(records) :
           /\ Mid(records, i) # Mid(records, j)
           /\ ShareZipAndHouse(records[i], records[j])
           /\ ~Reported(records[i], records[j])

\* -------------------------------------------------- fuzzy_match_unknowns
\* threshold: int = 88
match_threshold == 88

\* the index of the first element of scores that is the greatest
FirstMax(scores) ==
    CHOOSE i \in 1..Len(scores) :
        /\ \A j \in 1..Len(scores) : scores[j] <= scores[i]
        /\ \A j \in 1..(i - 1) : scores[j] < scores[i]

\* process.extractOne(name, known_aliases, scorer=fuzz.token_sort_ratio):
\* the best choice and its score, the first one among equals; None for an
\* empty list of choices
extractOne(name, known_aliases) ==
    IF known_aliases = <<>> THEN None
    ELSE LET scores == [k \in 1..Len(known_aliases) |->
                           token_sort_ratio(name, known_aliases[k])]
             best == FirstMax(scores)
         IN <<known_aliases[best], scores[best]>>

\* df[df['master_person_id'].isnull()]
Unmatched(frame) == SelectSeq(frame, LAMBDA row : row.master_person_id = None)

\* row.get(name_col) or row.get('donor_name', '')
NameOf(row) == IF row.normalized_name # None THEN row.normalized_name ELSE row.donor_name

\* alias_df['alias_name'].tolist()
KnownAliases(alias_df) == [k \in 1..Len(alias_df) |-> alias_df[k].alias_name]

\* alias_df[alias_df['alias_name'] == match].iloc[0]
MatchRow(alias_df, match) ==
    alias_df[CHOOSE k \in 1..Len(alias_df) :
                 /\ alias_df[k].alias_name = match
                 /\ \A j \in 1..(k - 1) : alias_df[j].alias_name # match]

\* the rows one unmatched row appends to matched_rows
SuggestionsOf(row, alias_df) ==
    LET name == NameOf(row)
        found == extractOne(name, KnownAliases(alias_df))
    IN IF name = None \/ found = None THEN <<>>
       ELSE IF found[2] >= match_threshold
            THEN <<[original_id |-> row.id,
                    original_name |-> row.donor_name,
                    normalized_name |-> name,
                    suggested_alias |-> found[1],
                    similarity_score |-> found[2],
                    suggested_master_person_id |-> MatchRow(alias_df, found[1]).master_person_id,
                    canonical_name |-> MatchRow(alias_df, found[1]).canonical_name,
                    review_status |-> "pending"]>>
            ELSE <<>>

\* matched_rows after the loop over the unmatched rows
RECURSIVE MatchedRows(_, _)
MatchedRows(unmatched, alias_df) ==
    IF unmatched = <<>> THEN <<>>
    ELSE SuggestionsOf(Head(unmatched), alias_df) \o MatchedRows(Tail(unmatched), alias_df)

\* sort_values('similarity_score', ascending=False): the orders of the rows
\* with descending scores (rows of equal score come in either order)
SortedByScore(rows) ==
    {[k \in 1..Len(rows) |-> rows[f[k]]] :
        f \in {g \in Orders(Len(rows)) :
                 \A a, b \in 1..Len(rows) :
                     a < b => rows[g[a]].similarity_score >= rows[g[b]].similarity_score}}

\* the DataFrames fuzzy_match_unmatched can return
fuzzy_match_unmatched(frame, alias_df) ==
    SortedByScore(MatchedRows(Unmatched(frame), alias_df))

\* match, score, _ = result: the loop reaches the unpacking when an
\* unmatched row has a name and there is a known alias
ReachesUnpack(frame, alias_df) ==
    /\ alias_df # <<>>
    /\ \E k \in 1..Len(frame) :
           frame[k].master_person_id = None /\ NameOf(frame[k]) # None

\* the lengths of the tuple extractOne returns for a list of choices:
\* (choice, score) or (choice, score, index), depending on the library that
\* provides fuzzywuzzy.process; a tuple of two makes the unpacking raise
ExtractOneArity == {2, 3}

\* review_df[review_df['review_status'] == 'approved']
ApprovedOrPending(review_df) ==
    SelectSeq(review_df, LAMBDA row : row.review_status # "rejected")
Approved(review_df) ==
    SelectSeq(review_df, LAMBDA row : row.review_status = "approved")

\* the alias row appended for one approved suggestion; the confidence
\* similarity_score / 100.0 is kept in hundredths
NewAlias(row) ==
    [alias_name |-> row.original_name,
     canonical_name |-> row.canonical_name,
     master_person_id |-> row.suggested_master_person_id,
     match_type |-> "fuzzy",
     confidence |-> row.similarity_score]

add_approved_matches_to_aliases(review_df, alias_df) ==
    LET approved == Approved(review_df)
    IN alias_df \o [k \in 1..Len(approved) |-> NewAlias(approved[k])]

\* ------------------------------------------------------------- ReviewSpec
\* suggest / review / promote steps in any order: fuzzy_match_unmatched
\* writes the review table, the reviewer edits review_status, and
\* add_approved_matches_to_aliases extends the alias table.
MaxReviewRows == 2
MaxReviewSteps == 4

s_John_Smith == <<"J","o","h","n"," ","S","m","i","t","h">>
s_BOB_JONES == <<"B","O","B"," ","J","O","N","E","S">>

\* the rows of the donor table
DonorRow(id, donor_name, normalized_name, master_person_id) ==
    [id |-> id, donor_name |-> donor_name, normalized_name |-> normalized_name,
     master_person_id |-> master_person_id]

ReviewDonors ==
    { DonorRow(1, JohnSmyth.donor_name, JohnSmyth.donor_name, None),
      DonorRow(2, s_John_Smith, None, None),
      DonorRow(3, s_BOB_JONES, s_BOB_JONES, None),
      DonorRow(4, JaneB.donor_name, JaneB.donor_name, SeedId(JaneB)),
      DonorRow(5, None, None, None) }

\* the rows of the alias table
AliasRow(alias_name, canonical_name, master_person_id) ==
    [alias_name |-> alias_name, canonical_name |-> canonical_name,
     master_person_id |-> master_person_id, match_type |-> "exact", confidence |-> 100]

ReviewAliases ==
    { AliasRow(JohnA.donor_name, JohnA.donor_name, SeedId(JohnA)),
      AliasRow(JohnA.donor_name, JohnAdam.donor_name, SeedId(JohnSmyth)),
      AliasRow(JaneB.donor_name, JaneB.donor_name, SeedId(JaneB)) }

RowTables(pool, n) ==
    {l \in RecordLists(pool, n) : \A i, j \in 1..Len(l) : i # j => l[i] # l[j]}

ReviewStatuses == {"pending", "approved", "rejected"}

ReviewInit ==
    /\ pc = "review_ready"
    /\ df \in RowTables(ReviewDonors, MaxReviewRows)
    /\ other_df \in RowTables(ReviewAliases, MaxReviewRows)
    /\ result = <<>>
    /\ opts = <<>>
    /\ step_idx = 0
    /\ IdleSim /\ IdleRecords /\ IdleAlias

ReviewUnchanged ==
    UNCHANGED <<name1, name2, sim12, sim21, records, reordered, trace, verdict,
                donations, aliases, rows_updated, passes, opts, df>>

\* suggestions = fuzzy_match_unmatched(df, alias_df)
Suggest ==
    /\ step_idx < MaxReviewSteps
    /\ step_idx' = step_idx + 1
    /\ \E arity \in ExtractOneArity :
          IF arity = 2 /\ ReachesUnpack(df, other_df)
          THEN pc' = "suggest_raised" /\ result' = result
          ELSE /\ pc' = "suggested"
               /\ result' \in fuzzy_match_unmatched(df, other_df)
    /\ UNCHANGED other_df
    /\ ReviewUnchanged

\* the reviewer sets the review_status of one row of the review table
Review ==
    /\ step_idx < MaxReviewSteps
    /\ step_idx' = step_idx + 1
    /\ \E i \in 1..Len(result), s \in ReviewStatuses :
          result' = [result EXCEPT ![i].review_status = s]
    /\ pc' = "reviewed"
    /\ UNCHANGED other_df
    /\ ReviewUnchanged

\* alias_df = add_approved_matches_to_aliases(review_df, alias_df); a review
\* table with no rows has no review_status column and the call raises
Promote ==
    /\ step_idx < MaxReviewSteps
    /\ step_idx' = step_idx + 1
    /\ IF result = <<>>
       THEN pc' = "promote_raised" /\ other_df' = other_df
       ELSE pc' = "promoted" /\ other_df' = add_approved_matches_to_aliases(result, other_df)
    /\ UNCHANGED result
    /\ ReviewUnchanged

ReviewNext == Suggest \/ Review \/ Promote

ReviewSpec == ReviewInit /\ [][ReviewNext]_vars

\* C14: every row fuzzy_match_unmatched produces is 'pending'; a step never
\* changes or removes an alias row that existed, and the alias rows it adds
\* are, one for one and in order, those of the rows of the review table
\* whose review_status is 'approved' at that moment: a row that is still
\* 'pending' (or 'rejected') adds no alias.
C14_ReviewGate ==
    [][/\ pc' = "suggested" =>
              \A i \in 1..Len(result') : result'[i].review_status = "pending"
       /\ Len(other_df') >= Len(other_df)
       /\ SubSeq(other_df', 1, Len(other_df)) = other_df
       /\ LET approved == {i \in 1..Len(result) : result[i].review_status = "approved"}
              added == (Len(other_df) + 1)..Len(other_df')
          IN /\ added # {} => pc' = "promoted"
             /\ Cardinality(added) \in {0, Cardinality(approved)}
             /\ \A k \in added : \E i \in approved :
                    /\ other_df'[k].alias_name = result[i].original_name
                    /\ other_df'[k].master_person_id = result[i].suggested_master_person_id
                    /\ Cardinality({j \in approved : j < i}) = k - Len(other_df) - 1
      ]_vars

\* a promotion that added the alias of an approved suggestion while another
\* suggestion of the review table was still pending
C14_Witness ==
    /\ pc = "promoted"
    /\ \E i, j \in 1..Len(result) :
           /\ result[i].review_status = "approved"
           /\ result[j].review_status = "pending"
           /\ \E k \in 1..Len(other_df) :
                  other_df[k].match_type = "fuzzy" /\ other_df[k].alias_name = result[i].original_name
           /\ \A k \in 1..Len(other_df) :
                  other_df[k].match_type = "fuzzy" => other_df[k].alias_name # result[j].original_name

\* ----------------------------------------------------------- infer_spouses
\* the two missing values of a DataFrame cell, None and NaN; neither is a
\* string of characters
PyNone == <<"None">>
NaN == <<"NaN">>

IsNull(v) == v \in {PyNone, NaN}

\* fillna('')
FillNa(v) == IF IsNull(v) THEN <<>> ELSE v

\* str(v) of a cell
Str(v) == IF v = PyNone THEN <<"N","o","n","e">> ELSE IF v = NaN THEN <<"n","a","n">> ELSE v

s_underscore == <<"_">>

\* df['household_key']
household_key(row) ==
    Lower(FillNa(row.house_number) \o s_underscore \o FillNa(row.street_name)
          \o s_underscore \o FillNa(row.zip_code))

\* ln1 and ln2 and ln1 == ln2
LastNamesMatchPresent(donor1, donor2) ==
    /\ ~IsNull(donor1.last_name) /\ donor1.last_name # <<>>
    /\ ~IsNull(donor2.last_name) /\ donor2.last_name # <<>>
    /\ Upper(donor1.last_name) = Upper(donor2.last_name)
LastNamesMatch(donor1, donor2) ==
    LET ln1 == Upper(Str(donor1.last_name))
        ln2 == Upper(Str(donor2.last_name))
    IN ln1 # <<>> /\ ln2 # <<>> /\ ln1 = ln2

\* the index labels of the rows of one group, in the order of the frame
GroupIndex(frame, key) == SelectSeq([k \in 1..Len(frame) |-> k],
                                    LAMBDA k : household_key(frame[k]) = key)

\* the pairs (i, j) the two loops over a group visit, in their order
RECURSIVE PairsFrom(_, _, _)
PairsFrom(idx, a, b) ==
    IF a > Len(idx) THEN <<>>
    ELSE IF b > Len(idx) THEN PairsFrom(idx, a + 1, 1)
    ELSE <<(<<idx[a], idx[b]>>)>> \o PairsFrom(idx, a, b + 1)

\* the rows one group appends to spouse_rows
GroupSpouseRows(frame, key) ==
    LET idx == GroupIndex(frame, key)
        pairs == IF Len(idx) < 2 THEN <<>> ELSE PairsFrom(idx, 1, 1)
        kept == SelectSeq(pairs, LAMBDA p :
                    ~(p[1] >= p[2]) /\ LastNamesMatch(frame[p[1]], frame[p[2]]))
    IN [k \in 1..Len(kept) |->
           [donor_id |-> frame[kept[k][1]].id,
            spouse_id |-> frame[kept[k][2]].id,
            household_key |-> key,
            confidence |-> <<19, 20>>,
            source |-> "address_lastname_match"]]

RECURSIVE SpouseRows(_, _)
SpouseRows(frame, keys) ==
    IF keys = <<>> THEN <<>>
    ELSE GroupSpouseRows(frame, Head(keys)) \o SpouseRows(frame, Tail(keys))

\* groupby('household_key') visits the groups in the order of their keys
infer_spouse_pairs(frame) ==
    SpouseRows(frame, SortedTokens({household_key(frame[k]) : k \in 1..Len(frame)}))

\* -------------------------------------------------------------- SpouseSpec
\* infer_spouse_pairs run once over a donor table.
MaxSpouseRows == 3

s_123 == <<"1","2","3">>
s_Main == <<"M","a","i","n">>
s_MAIN == <<"M","A","I","N">>

SpouseHouses == {s_123, NaN}
SpouseStreets == {s_Main, s_MAIN}
SpouseZips == {s_z27601}
SpouseLastNames == {s_Smith, s_SMITH, s_JONES, <<>>, PyNone, NaN}

\* the cells of one row, without its id
SpouseCells ==
    [house_number : SpouseHouses, street_name : SpouseStreets,
     zip_code : SpouseZips, last_name : SpouseLastNames]

\* donor tables: the id of a row is its position
SpouseTables(n) ==
    UNION {{[k \in 1..m |->
                [id |-> k, house_number |-> c[k].house_number,
                 street_name |-> c[k].street_name, zip_code |-> c[k].zip_code,
                 last_name |-> c[k].last_name]]
            : c \in [1..m -> SpouseCells]} : m \in 0..n}

SpouseInit ==
    /\ pc = "spouses_ready"
    /\ df \in SpouseTables(MaxSpouseRows)
    /\ other_df = <<>>
    /\ result = <<>>
    /\ IdleSim /\ IdleRecords /\ IdleAlias /\ IdlePipeline

InferSpousePairs ==
    /\ pc = "spouses_ready"
    /\ result' = infer_spouse_pairs(df)
    /\ pc' = "spouses_done"
    /\ UNCHANGED <<name1, name2, sim12, sim21, records, reordered, trace, verdict,
                   donations, aliases, rows_updated, passes, opts, step_idx, df, other_df>>

SpouseNext == InferSpousePairs

SpouseSpec == SpouseInit /\ [][SpouseNext]_vars

\* the rows of the output for the pair of the records at i and j
RowsOfPair(i, j) ==
    {k \in 1..Len(result) :
        {result[k].donor_id, result[k].spouse_id} = {df[i].id, df[j].id}}

\* C15: the output holds exactly one row, with confidence 0.95 and source
\* 'address_lastname_match', for every pair of distinct records with the
\* same household_key and the same last name compared case-insensitively,
\* and no row for any other pair; no row for a pair in which a last name
\* is missing (null or empty).
C15_SpousePairs ==
    pc = "spouses_done" =>
        \A i, j \in 1..Len(df) :
            i < j =>
                IF /\ household_key(df[i]) = household_key(df[j])
                   /\ LastNamesMatchPresent(df[i], df[j])
                THEN /\ Cardinality(RowsOfPair(i, j)) = 1
                     /\ \A k \in RowsOfPair(i, j) :
                            /\ result[k].confidence = <<19, 20>>
                            /\ result[k].source = "address_lastname_match"
                ELSE RowsOfPair(i, j) = {}

\* ------------------------------------------- link_committees_to_candidates
\* threshold: float = 0.85, in hundredths
link_threshold == 85

\* fuzzy_match_committee_to_candidate, in hundredths
fuzzy_match_committee_to_candidate(committee_name, candidate_name) ==
    IF IsNull(committee_name) \/ committee_name = <<>>
       \/ IsNull(candidate_name) \/ candidate_name = <<>>
    THEN 0
    ELSE token_sort_ratio(Strip(Lower(committee_name)), Strip(Lower(candidate_name)))

\* str(comm.get('county_name', '')).lower().strip()
CommCounty(comm) == Strip(Lower(Str(comm.county_name)))

\* candidates['county_name'].str.lower().str.strip() == comm_county
InCounty(cand, comm_county) ==
    ~IsNull(cand.county_name) /\ Strip(Lower(cand.county_name)) = comm_county

\* the loop over county_candidates: best = <<best_match, best_score>>, with
\* best_match the position of the candidate in the table (0 for None)
RECURSIVE BestFrom(_, _, _, _, _)
BestFrom(comm_name, comm_county, candidates, k, best) ==
    IF k > Len(candidates) THEN best
    ELSE IF ~InCounty(candidates[k], comm_county)
         THEN BestFrom(comm_name, comm_county, candidates, k + 1, best)
         ELSE LET score == fuzzy_match_committee_to_candidate(
                               comm_name, candidates[k].name_on_ballot)
              IN BestFrom(comm_name, comm_county, candidates, k + 1,
                          IF score > best[2] /\ score >= link_threshold
                          THEN <<k, score>> ELSE best)

\* the rows one committee appends to matches
CommitteeMatches(comm, candidates) ==
    LET comm_county == CommCounty(comm)
        comm_name == comm.committee_name
    IN IF comm_county = <<>> \/ IsNull(comm_name) \/ comm_name = <<>> THEN <<>>
       ELSE LET best == BestFrom(comm_name, comm_county, candidates, 1, <<0, 0>>)
            IN IF best[1] = 0 THEN <<>>
               ELSE <<[committee_id |-> comm.committee_id,
                       committee_name |-> comm_name,
                       candidate_id |-> candidates[best[1]].id,
                       candidate_name |-> candidates[best[1]].name_on_ballot,
                       county_name |-> comm_county,
                       confidence |-> best[2],
                       match_type |-> "county+fuzzy_name"]>>

RECURSIVE LinkRows(_, _)
LinkRows(committees, candidates) ==
    IF committees = <<>> THEN <<>>
    ELSE CommitteeMatches(Head(committees), candidates)
         \o LinkRows(Tail(committees), candidates)

link_committees_to_candidates(committees, candidates) == LinkRows(committees, candidates)

\* a committee reaches the county filter
ReachesFilter(comm) ==
    CommCounty(comm) # <<>> /\ ~IsNull(comm.committee_name) /\ comm.committee_name # <<>>

\* ---------------------------------------------------------------- LinkSpec
\* link_committees_to_candidates run once over a committee table and a
\* candidate table.
MaxCommittees == 1
MaxCandidates == 2

s_JOHN_SMITH == <<"J","O","H","N"," ","S","M","I","T","H">>
s_John_A_Smith == <<"J","o","h","n"," ","A"," ","S","m","i","t","h">>
s_SMITH_JOHN == <<"S","M","I","T","H",","," ","J","O","H","N">>
s_Wake == <<"W","a","k","e">>
s_WAKE_pad == <<" ","W","A","K","E"," ">>
s_Durham == <<"D","u","r","h","a","m">>
s_None == <<"N","o","n","e">>

CommitteeNames == {s_JOHN_SMITH, s_John_A_Smith, PyNone, <<>>}
CommitteeCounties == {s_Wake, s_WAKE_pad, s_Durham, PyNone, <<>>}

\* committee tables: the committee_id of a row is its position
CommitteeTables(n) ==
    UNION {{[k \in 1..m |-> [committee_id |-> k, committee_name |-> c[k][1],
                             county_name |-> c[k][2]]]
            : c \in [1..m -> CommitteeNames \X CommitteeCounties]} : m \in 0..n}

Candidate(id, name_on_ballot, county_name) ==
    [id |-> id, name_on_ballot |-> name_on_ballot, county_name |-> county_name]

CandidatePool ==
    { Candidate(1, s_John_Smith, s_WAKE_pad),
      Candidate(2, s_SMITH_JOHN, s_Wake),
      Candidate(3, JohnSmyth.donor_name, s_Wake),
      Candidate(4, s_John_Smith, s_Durham),
      Candidate(5, s_John_Smith, s_None),
      Candidate(6, PyNone, s_Wake),
      Candidate(7, s_John_Smith, PyNone) }

LinkInit ==
    /\ pc = "link_ready"
    /\ df \in CommitteeTables(MaxCommittees)
    /\ other_df \in RowTables(CandidatePool, MaxCandidates)
    /\ result = <<>>
    /\ IdleSim /\ IdleRecords /\ IdleAlias /\ IdlePipeline

\* an empty candidate table has no county_name column: the filter raises
LinkCommitteesToCandidates ==
    /\ pc = "link_ready"
    /\ IF other_df = <<>> /\ \E k \in 1..Len(df) : ReachesFilter(df[k])
       THEN pc' = "link_raised" /\ result' = result
       ELSE pc' = "link_done" /\ result' = link_committees_to_candidates(df, other_df)
    /\ UNCHANGED <<name1, name2, sim12, sim21, records, reordered, trace, verdict,
                   donations, aliases, rows_updated, passes, opts, step_idx, df, other_df>>

LinkNext == LinkCommitteesToCandidates

LinkSpec == LinkInit /\ [][LinkNext]_vars

\* the committee has a county: a value that is not null and not blank
HasCounty(comm) == ~IsNull(comm.county_name) /\ Strip(comm.county_name) # <<>>
HasName(comm) == ~IsNull(comm.committee_name) /\ comm.committee_name # <<>>

\* the candidate is of the committee's county, case and whitespace aside
SameCounty(comm, cand) ==
    /\ HasCounty(comm) /\ ~IsNull(cand.county_name)
    /\ Strip(Lower(comm.county_name)) = Strip(Lower(cand.county_name))

ScoreOf(comm, cand) ==
    fuzzy_match_committee_to_candidate(comm.committee_name, cand.name_on_ballot)

\* C16: a committee has at most one match; the matched candidate is of the
\* committee's normalized county, scores >= the threshold and no less than
\* any candidate of that county, and is the first of those with its score;
\* a committee with no county, no name, or no same-county candidate at or
\* above the threshold has no match.
C16_BestOfCounty ==
    pc = "link_done" =>
        \A c \in 1..Len(df) :
            LET rows == {r \in 1..Len(result) : result[r].committee_id = df[c].committee_id}
                eligible == {k \in 1..Len(other_df) :
                                /\ SameCounty(df[c], other_df[k])
                                /\ ScoreOf(df[c], other_df[k]) >= link_threshold}
            IN /\ Cardinality(rows) <= 1
               /\ \A r \in rows : \E k \in eligible :
                      /\ result[r].candidate_id = other_df[k].id
                      /\ result[r].confidence = ScoreOf(df[c], other_df[k])
                      /\ \A j \in 1..Len(other_df) :
                             SameCounty(df[c], other_df[j]) =>
                                 /\ ScoreOf(df[c], other_df[j]) <= ScoreOf(df[c], other_df[k])
                                 /\ (j < k => ScoreOf(df[c], other_df[j]) < ScoreOf(df[c], other_df[k]))
               /\ (~HasCounty(df[c]) \/ ~HasName(df[c]) \/ eligible = {}) => rows = {}

\* ----------------------------------------------------------------- ZipSpec
\* normalize_zip applied once to an input string.
MaxZipLen == 6

ZipAlphabet == {"0", "7", "-", "a"}

s_27601_1234 == <<"2","7","6","0","1","-","1","2","3","4">>
s_00123 == <<"0","0","1","2","3">>

\* the strings of the contract's examples
ZipExamples == {s_27601_1234, s_123, <<>>}

\* the strings over ZipAlphabet of length n or less
RECURSIVE ZipStrings(_)
ZipStrings(n) ==
    IF n = 0 THEN {<<>>}
    ELSE LET S == ZipStrings(n - 1)
         IN S \cup {Append(s, c) : s \in {x \in S : Len(x) = n - 1}, c \in ZipAlphabet}

ZipInputs == ZipStrings(MaxZipLen) \cup ZipExamples

ZipInit ==
    /\ pc = "zip_ready"
    /\ df \in ZipInputs
    /\ other_df = <<>>
    /\ result = <<>>
    /\ IdleSim /\ IdleRecords /\ IdleAlias /\ IdlePipeline

NormalizeZip ==
    /\ pc = "zip_ready"
    /\ result' = normalize_zip(df)
    /\ pc' = "zip_done"
    /\ UNCHANGED <<name1, name2, sim12, sim21, records, reordered, trace, verdict,
                   donations, aliases, rows_updated, passes, opts, step_idx, df, other_df>>

ZipNext == NormalizeZip

ZipSpec == ZipInit /\ [][ZipNext]_vars

\* the positions of the digits of s
DigitPositions(s) == {i \in 1..Len(s) : s[i] \in DigitChars}

\* the position of the k-th digit of s
KthDigit(s, k) ==
    CHOOSE i \in DigitPositions(s) : Cardinality({j \in DigitPositions(s) : j <= i}) = k

\* C17: normalize_zip returns the empty string or exactly five digits: the
\* first five digits of an input with five or more, the digits left-padded
\* with zeros to five for an input with one to four, the empty string for
\* an input with none; "27601-1234" gives "27601", "123" gives "00123" and
\* "" gives "".
C17_FiveDigitsOrEmpty ==
    pc = "zip_done" =>
        LET n == Cardinality(DigitPositions(df))
        IN /\ result = <<>> \/ (Len(result) = 5 /\ \A k \in 1..5 : result[k] \in DigitChars)
           /\ n = 0 => result = <<>>
           /\ n >= 5 => Len(result) = 5 /\ \A k \in 1..5 : result[k] = df[KthDigit(df, k)]
           /\ n \in 1..4 =>
                  /\ Len(result) = 5
                  /\ \A k \in 1..(5 - n) : result[k] = "0"
                  /\ \A k \in 1..n : result[5 - n + k] = df[KthDigit(df, k)]
           /\ df = s_27601_1234 => result = s_z27601
           /\ df = s_123 => result = s_00123

\* an input of three digits, padded on the left
C17_Witness == pc = "zip_done" /\ df = s_123 /\ result = s_00123

\* -------------------------------------------------------------- parse_names
PREFIXES ==
    {<<"M","R">>, <<"M","R","S">>, <<"M","S">>, <<"M","I","S","S">>, <<"D","R">>, <<"R","E","V">>, <<"H","O","N">>,
     <<"J","U","D","G","E">>, <<"S","E","N">>, <<"R","E","P">>, <<"G","O","V">>, <<"M","A","Y","O","R">>, <<"P","R","O","F">>,
     <<"F","R">>, <<"S","R">>, <<"B","R","O","T","H","E","R">>, <<"S","I","S","T","E","R">>, <<"P","A","S","T","O","R">>}

SUFFIXES ==
    {<<"J","R">>, <<"S","R">>, <<"I","I">>, <<"I","I","I">>, <<"I","V">>, <<"V">>, <<"V","I">>, <<"V","I","I">>, <<"V","I","I","I">>,
     <<"M","D">>, <<"P","H","D">>, <<"E","S","Q">>, <<"C","P","A">>, <<"D","D","S">>, <<"R","N">>, <<"J","D">>, <<"D","O">>,
     <<"M","B","A">>, <<"M","P","A">>, <<"P","E">>, <<"R","A">>, <<"A","I","A">>, <<"F","A","I","A">>}

IsLetter(c) ==
    \/ \E i \in 1..Len(LowerChars) : LowerChars[i] = c
    \/ \E i \in 1..Len(UpperChars) : UpperChars[i] = c

\* str.title(): a letter after a letter is lower-cased, any other letter is
\* upper-cased
Title(s) ==
    [i \in 1..Len(s) |->
        IF i > 1 /\ IsLetter(s[i - 1]) THEN LowerChar(s[i]) ELSE UpperChar(s[i])]

NickOpeners == {"\"", "("}
NickClosers == {"\"", ")"}

\* the position where a match of ["\(]([^"\)]+)["\)] that starts at i ends,
\* 0 if there is none
NickEnd(s, i) ==
    IF /\ s[i] \in NickOpeners
       /\ i + 1 <= Len(s) /\ s[i + 1] \notin NickClosers
       /\ \E j \in (i + 2)..Len(s) : s[j] \in NickClosers
    THEN CHOOSE j \in (i + 2)..Len(s) :
             s[j] \in NickClosers /\ \A k \in (i + 2)..(j - 1) : s[k] \notin NickClosers
    ELSE 0

\* re.search(...): the start of the first match, 0 if there is none
NickStart(s) ==
    IF \E i \in 1..Len(s) : NickEnd(s, i) # 0
    THEN CHOOSE i \in 1..Len(s) :
             NickEnd(s, i) # 0 /\ \A k \in 1..(i - 1) : NickEnd(s, k) = 0
    ELSE 0

\* re.sub(r'["\(][^"\)]+["\)]', '', name) from index i on
RECURSIVE RemoveNicknames(_, _)
RemoveNicknames(s, i) ==
    IF i > Len(s) THEN <<>>
    ELSE IF NickEnd(s, i) # 0 THEN RemoveNicknames(s, NickEnd(s, i) + 1)
    ELSE <<s[i]>> \o RemoveNicknames(s, i + 1)

\* nickname_match.group(1).title()
Nickname(name) ==
    IF NickStart(name) = 0 THEN None
    ELSE Title(SubSeq(name, NickStart(name) + 1, NickEnd(name, NickStart(name)) - 1))

\* parts: the name upper-cased, nicknames and periods removed, split
NameParts(full_name) ==
    LET name == Strip(Upper(full_name))
        bare == IF NickStart(name) = 0 THEN name ELSE RemoveNicknames(name, 1)
    IN Split(SelectSeq(bare, LAMBDA c : c # "."))

\* result['prefix']
PrefixOf(part) ==
    IF part \in {<<"D","R">>, <<"M","R">>, <<"M","R","S">>, <<"M","S">>, <<"R","E","V">>}
    THEN Title(part) \o <<".">> ELSE Title(part)

\* ' '.join(p.title() for p in parts[1:-1])
MiddleOf(parts) ==
    JoinTokens([k \in 1..(Len(parts) - 2) |-> Title(parts[k + 1])])

\* the name fields of the parts left after prefix and suffix
NameFieldsLastFirst(parts) ==
    IF Len(parts) = 0
    THEN [first_name |-> None, middle_name |-> None, last_name |-> None]
    ELSE IF Len(parts) = 1
    THEN [first_name |-> None, middle_name |-> None, last_name |-> Title(parts[1])]
    ELSE IF Len(parts) = 2
    THEN [first_name |-> Title(parts[2]), middle_name |-> None, last_name |-> Title(parts[1])]
    ELSE [first_name |-> Title(parts[Len(parts)]), middle_name |-> MiddleOf(parts),
          last_name |-> Title(parts[1])]
NameFields(parts) ==
    IF Len(parts) = 0
    THEN [first_name |-> None, middle_name |-> None, last_name |-> None]
    ELSE IF Len(parts) = 1
    THEN [first_name |-> None, middle_name |-> None, last_name |-> Title(parts[1])]
    ELSE IF Len(parts) = 2
    THEN [first_name |-> Title(parts[1]), middle_name |-> None, last_name |-> Title(parts[2])]
    ELSE [first_name |-> Title(parts[1]), middle_name |-> MiddleOf(parts),
          last_name |-> Title(parts[Len(parts)])]

parse_name(full_name) ==
    IF full_name = <<>> \/ Strip(full_name) = <<>>
    THEN [prefix |-> None, first_name |-> None, middle_name |-> None,
          last_name |-> None, suffix |-> None, nickname |-> None]
    ELSE LET parts == NameParts(full_name)
             pre == parts # <<>> /\ parts[1] \in PREFIXES
             rest == IF pre THEN Tail(parts) ELSE parts
             suf == rest # <<>> /\ rest[Len(rest)] \in SUFFIXES
             left == IF suf THEN SubSeq(rest, 1, Len(rest) - 1) ELSE rest
             fields == NameFields(left)
         IN [prefix |-> IF pre THEN PrefixOf(parts[1]) ELSE None,
             first_name |-> fields.first_name,
             middle_name |-> fields.middle_name,
             last_name |-> fields.last_name,
             suffix |-> IF suf THEN rest[Len(rest)] ELSE None,
             nickname |-> Nickname(Strip(Upper(full_name)))]

\* --------------------------------------------------------------- ParseSpec
\* parse_name applied once to a name.
MaxTokens == 4

s_DR_dot == <<"D","R",".">>
s_SR == <<"S","R">>
s_JR == <<"J","R">>
s_JAMES == <<"J","A","M","E","S">>
s_ARTHUR == <<"A","R","T","H","U","R">>
s_POPE == <<"P","O","P","E">>
s_JIM_paren == <<"(","J","I","M",")">>

NameTokens == {s_DR_dot, s_SR, s_JR, s_JAMES, s_ARTHUR, s_POPE, s_JIM_paren}

\* the name of the contract's example and two blank names
s_DR_JAMES_ARTHUR_POPE_JR == <<"D","R","."," ","J","A","M","E","S"," ","A","R","T","H","U","R"," ","P","O","P","E"," ","J","R">>
NameExamples == {s_DR_JAMES_ARTHUR_POPE_JR, <<" ">>, <<" ", " ">>}

\* the names made of n tokens or fewer
NameInputs ==
    {JoinTokens(t) : t \in UNION {[1..m -> NameTokens] : m \in 0..MaxTokens}}
        \cup NameExamples

ParseInit ==
    /\ pc = "parse_ready"
    /\ df \in NameInputs
    /\ other_df = <<>>
    /\ result = <<>>
    /\ IdleSim /\ IdleRecords /\ IdleAlias /\ IdlePipeline

ParseName ==
    /\ pc = "parse_ready"
    /\ result' = parse_name(df)
    /\ pc' = "parse_done"
    /\ UNCHANGED <<name1, name2, sim12, sim21, records, reordered, trace, verdict,
                   donations, aliases, rows_updated, passes, opts, step_idx, df, other_df>>

ParseNext == ParseName

ParseSpec == ParseInit /\ [][ParseNext]_vars

\* C18: with P the tokens of the name, the prefix is P's first token when
\* that is in the prefix vocabulary, the suffix is the last remaining token
\* when that is in the suffix vocabulary, and the n tokens left give: no
\* name field for 0, the last name for 1, first and last for 2, first,
\* joined interior tokens as middle, and last for 3 or more; prefix-only,
\* suffix-only and blank names give no name field; "DR. JAMES ARTHUR POPE
\* JR" gives Dr. / James / Arthur / Pope / JR.
C18_TokenMapping ==
    pc = "parse_done" =>
        LET P == NameParts(df)
            hasPre == P # <<>> /\ P[1] \in PREFIXES
            R1 == IF hasPre THEN Tail(P) ELSE P
            hasSuf == R1 # <<>> /\ R1[Len(R1)] \in SUFFIXES
            R == IF hasSuf THEN SubSeq(R1, 1, Len(R1) - 1) ELSE R1
            n == Len(R)
        IN /\ (result.prefix # None) = hasPre
           /\ hasPre => Upper(SelectSeq(result.prefix, LAMBDA c : c # ".")) = P[1]
           /\ result.suffix = IF hasSuf THEN R1[Len(R1)] ELSE None
           /\ n = 0 => /\ result.first_name = None /\ result.middle_name = None
                       /\ result.last_name = None
           /\ n = 1 => /\ result.first_name = None /\ result.middle_name = None
                       /\ result.last_name = Title(R[1])
           /\ n = 2 => /\ result.first_name = Title(R[1]) /\ result.middle_name = None
                       /\ result.last_name = Title(R[2])
           /\ n >= 3 => /\ result.first_name = Title(R[1])
                        /\ result.last_name = Title(R[n])
                        /\ result.middle_name
                               = JoinTokens([k \in 1..(n - 2) |-> Title(R[k + 1])])
           /\ Strip(df) = <<>> =>
                  /\ result.prefix = None /\ result.suffix = None
                  /\ result.nickname = None /\ result.last_name = None
           /\ df = s_DR_JAMES_ARTHUR_POPE_JR =>
                  result = [prefix |-> <<"D","r",".">>, first_name |-> <<"J","a","m","e","s">>,
                            middle_name |-> <<"A","r","t","h","u","r">>, last_name |-> <<"P","o","p","e">>,
                            suffix |-> <<"J","R">>, nickname |-> None]

\* the example of the contract, parsed
C18_Witness ==
    /\ pc = "parse_done"
    /\ df = s_DR_JAMES_ARTHUR_POPE_JR
    /\ result.first_name = <<"J","a","m","e","s">> /\ result.suffix = <<"J","R">>

\* the seeds before position p in p's block that match_records judges a
\* match against the record at p
EarlierSeedsMatching(p) ==
    {q \in 1..(p - 1) :
        /\ BlockKey(records[q]) = BlockKey(records[p])
        /\ trace.seed_of[q] = q
        /\ match_records(records[q], records[p])[1]}

\* C19: within a block, in input order, a record is a seed, holding the id
\* of its own canonical key, exactly when no earlier seed of the block
\* matches it; a record that is not a seed holds the id of the first
\* earlier seed that matches it; the record an id was taken from is always
\* a seed, and an id is written at most once per pass.
C19_GreedyStar ==
    pc = "assign_done" =>
        \A p \in 1..Len(records) :
            LET seeds == EarlierSeedsMatching(p)
            IN /\ (trace.seed_of[p] = p) = (seeds = {})
               /\ trace.seed_of[p] = p => Mid(records, p) = OwnId(records[p])
               /\ trace.seed_of[p] # p =>
                      /\ seeds # {}
                      /\ \A q \in seeds :
                             (\A o \in seeds : q <= o) =>
                                 /\ trace.seed_of[p] = q
                                 /\ Mid(records, p) = Mid(records, q)
               /\ trace.writes[p] <= 1

\* the number of leading positions, four at most, at which the strings
\* agree before their first disagreement
CommonPrefixLen(s1, s2) ==
    Cardinality({i \in 1..Min2(4, Min2(Len(s1), Len(s2))) :
                    \A k \in 1..i : s1[k] = s2[k]})

\* C20: for two names whose stripped upper-cased forms are non-empty and
\* different, calculate_name_similarity is jaro + 0.1 * commonPrefixLen *
\* (1 - jaro) with commonPrefixLen the length, capped at 4, of the common
\* prefix: characters that agree after the first disagreement add nothing.
C20_CommonPrefixBoost ==
    pc = "sim_done" =>
        LET s1 == Strip(Upper(name1))
            s2 == Strip(Upper(name2))
        IN (s1 # <<>> /\ s2 # <<>> /\ s1 # s2) =>
               sim12 = JaroBoosted(s1, s2, CommonPrefixLen(s1, s2))

\* C21: in match_records a signal whose data is missing on either record
\* (or on both) adds 0 to the score: the first-name term is 0 when a first
\* name is empty, the ZIP term is 0 when a ZIP is empty, the street term
\* is 0 when a leading street number is empty.
C21_MissingSignalAddsNothing ==
    (pc = "match_done" /\ Upper(records[1].last_name) = Upper(records[2].last_name)) =>
        LET r1 == records[1]
            r2 == records[2]
            sim == calculate_name_similarity(r1.first_name, r2.first_name)
            z1 == normalize_zip(r1.zipcode)
            z2 == normalize_zip(r2.zipcode)
            sn1 == extract_street_number(r1.street_address)
            sn2 == extract_street_number(r2.street_address)
            nameTerm == IF r1.first_name = <<>> \/ r2.first_name = <<>> THEN 0
                        ELSE IF FracGE(sim, 9, 10) THEN 4
                        ELSE IF FracGE(sim, 8, 10) THEN 3 ELSE 0
            zipTerm == IF z1 = <<>> \/ z2 = <<>> THEN 0
                       ELSE IF z1 = z2 THEN 3 ELSE 0
            streetTerm == IF sn1 = <<>> \/ sn2 = <<>> THEN 0
                          ELSE IF sn1 = sn2 THEN 3 ELSE 0
        IN verdict[2] = nameTerm + zipTerm + streetTerm

\* ------------------------------------------------------ add_spouse_columns
\* dict(zip(keys, values))[k]: the value at the last position whose key is
\* k; default when k is no key
DictGet(keys, values, k, default) ==
    IF \E i \in 1..Len(keys) : keys[i] = k
    THEN values[CHOOSE i \in 1..Len(keys) :
                    keys[i] = k /\ \A j \in (i + 1)..Len(keys) : keys[j] # k]
    ELSE default

\* df[id_col].map(spouse_lookup) at id k, spouse_lookup updated with
\* reverse_lookup; 0, the id of no record, stands for the NaN that map
\* gives for an id that is no key
SpouseLookup(spouse_df, k) ==
    LET donor == [i \in 1..Len(spouse_df) |-> spouse_df[i].donor_id]
        spouse == [i \in 1..Len(spouse_df) |-> spouse_df[i].spouse_id]
    IN DictGet(spouse, donor, k, DictGet(donor, spouse, k, 0))

\* df with the columns spouse_id and has_spouse added
add_spouse_columns(frame, spouse_df) ==
    [k \in 1..Len(frame) |->
        [id |-> frame[k].id, house_number |-> frame[k].house_number,
         street_name |-> frame[k].street_name, zip_code |-> frame[k].zip_code,
         last_name |-> frame[k].last_name,
         spouse_id |-> SpouseLookup(spouse_df, frame[k].id),
         has_spouse |-> SpouseLookup(spouse_df, frame[k].id) # 0]]

\* ------------------------------------------------------------- ColumnsSpec
\* infer_spouse_pairs run over a donor table, then add_spouse_columns run
\* over the table and the pairs.

\* a table of pairs with no rows has no donor_id column: the call raises
AddSpouseColumns ==
    /\ pc = "spouses_done"
    /\ IF result = <<>>
       THEN pc' = "columns_raised" /\ other_df' = other_df
       ELSE pc' = "columns_done" /\ other_df' = add_spouse_columns(df, result)
    /\ UNCHANGED <<name1, name2, sim12, sim21, records, reordered, trace, verdict,
                   donations, aliases, rows_updated, passes, opts, step_idx, df, result>>

ColumnsNext == InferSpousePairs \/ AddSpouseColumns

ColumnsSpec == SpouseInit /\ [][ColumnsNext]_vars

\* C22: after add_spouse_columns, if record a has spouse_id b then record b
\* has spouse_id a, also in a household of three or more records of one
\* last name, and has_spouse is true exactly for the records that occur in
\* some spouse pair.
C22_SpouseIdSymmetric ==
    pc = "columns_done" =>
        /\ \A a, b \in 1..Len(other_df) :
               other_df[a].spouse_id = other_df[b].id
                   => other_df[b].spouse_id = other_df[a].id
        /\ \A a \in 1..Len(other_df) :
               other_df[a].has_spouse
                   = (\E r \in 1..Len(result) :
                          other_df[a].id \in {result[r].donor_id, result[r].spouse_id})

====
